---------------------------- MODULE Spec2Model ----------------------------
(***************************************************************************)
(* Approval state machine, meaningful-change hashing and hash-chained      *)
(* audit ledger of the Sheets approval script (src/Code.gs, lines 1-1057;  *)
(* lines 1059-1487 of that file repeat an earlier revision of the same     *)
(* functions and are not modelled).                                        *)
(*                                                                         *)
(* Cell values are strings.  sha256Hex_ is modelled as an injective        *)
(* symbolic digest; JSON.stringify is modelled by building the JSON text.  *)
(***************************************************************************)
EXTENDS Integers, Sequences, FiniteSets, TLC

(***************************************************************************)
(* Bounds of the model.                                                    *)
(***************************************************************************)
NRows == 2          \* data rows of the Requests sheet
NProcs == 2         \* script executions that can be in flight at once
MaxAudit == 2       \* rows the Audit sheet can take
MaxSeedAudit == 3   \* rows the Audit sheet can take next to the seeded demo rows
MaxIds == 1         \* ids handed out before the user stops clearing RequestId cells

(***************************************************************************)
(* CFG (src/Code.gs 9-65).                                                 *)
(***************************************************************************)
HEADER_ROW == 1
STATUS_PENDING == "PENDING"
STATUS_APPROVED == "APPROVED"
STATUS_REJECTED == "REJECTED"
REQUEST_ID_HEADER == "RequestId"
APPROVED_HASH_HEADER == "ApprovedHash"
REAPPROVAL_ON_CHANGE == TRUE
REAPPROVAL_EXEMPT_HEADERS ==
    <<"RequestId", "Status", "Approver", "DecisionAt", "DecisionNotes">>
LOCK_ROW_ON_APPROVE == TRUE
LOCK_DESCRIPTION_PREFIX == "ApprovalsLock"
AUDIT_HASH_CHAIN == TRUE

\* The two CFG entries the documentation invites the operator to change
\* (README "Configure which edits count"): shipped value first.
ShippedCfg == [tracked |-> <<>>, fromStatuses |-> <<"APPROVED">>]
CustomCfg == [tracked |-> <<"Title">>, fromStatuses |-> <<"APPROVED", "REJECTED">>]
CfgChoices == {ShippedCfg, CustomCfg}

\* Header row of the Requests sheet, as createDemoSetup lays it out.
RequestsHeaders ==
    <<"RequestId", "Title", "Requester", "Status", "Approver",
      "DecisionAt", "DecisionNotes", "ApprovedHash">>

(***************************************************************************)
(* Inputs.                                                                 *)
(***************************************************************************)
Procs == 1..NProcs
NoProc == 0
Actors == {"alice"}
Times == {"T1"}
Notes == {"ok"}
Titles == {"t2"}             \* what an edit or an import writes into Title
DecideStatuses == {STATUS_PENDING, STATUS_APPROVED, STATUS_REJECTED}

(***************************************************************************)
(* Sequence helpers (Array.prototype.indexOf, join, sort).                 *)
(***************************************************************************)
\* indexOf, 1-based; 0 stands for JavaScript's -1.
IndexOf(seq, x) ==
    IF \E i \in 1..Len(seq) : seq[i] = x
    THEN CHOOSE i \in 1..Len(seq) : seq[i] = x /\ \A j \in 1..(i - 1) : seq[j] # x
    ELSE 0

Contains(seq, x) == IndexOf(seq, x) # 0

JoinEmpty(seq, sep) == ""

RECURSIVE Join(_, _)
Join(seq, sep) ==
    IF Len(seq) = 0 THEN ""
    ELSE IF Len(seq) = 1 THEN seq[1]
    ELSE seq[1] \o sep \o Join(Tail(seq), sep)

\* The strings Array.prototype.sort can meet here, in UTF-16 code unit order.
SortOrder ==
    <<"ApprovedHash", "Approver", "Col1", "Col2", "Col3", "Col4", "Col5",
      "Col6", "Col7", "Col8", "DecisionAt", "DecisionNotes", "RequestId",
      "Requester", "Status", "Title">>

Rank(s) == IndexOf(SortOrder, s)

RECURSIVE InsertSorted(_, _)
InsertSorted(seq, x) ==
    IF Len(seq) = 0 THEN <<x>>
    ELSE IF Rank(x) < Rank(seq[1]) THEN <<x>> \o seq
    ELSE <<seq[1]>> \o InsertSorted(Tail(seq), x)

RECURSIVE Sort(_)
Sort(seq) ==
    IF Len(seq) = 0 THEN <<>> ELSE InsertSorted(Sort(Tail(seq)), seq[1])

(***************************************************************************)
(* sha256Hex_ (src/Code.gs 625-631): an injective symbolic digest.  A real *)
(* digest is hexadecimal, so it never needs escaping inside JSON text.     *)
(***************************************************************************)
sha256Hex_(str) == "H(" \o str \o ")"

(***************************************************************************)
(* JSON.stringify of an object given as a sequence of <<key, json text>>,  *)
(* in property order.                                                      *)
(***************************************************************************)
JsonString(s) == "\"" \o s \o "\""

RECURSIVE JsonMembers(_)
JsonMembers(pairs) ==
    IF Len(pairs) = 0 THEN ""
    ELSE JsonString(pairs[1][1]) \o ":" \o pairs[1][2]
         \o (IF Len(pairs) = 1 THEN "" ELSE "," \o JsonMembers(Tail(pairs)))

JsonObject(pairs) == "{" \o JsonMembers(pairs) \o "}"

RECURSIVE JsonArrayItems(_)
JsonArrayItems(seq) ==
    IF Len(seq) = 0 THEN ""
    ELSE JsonString(seq[1])
         \o (IF Len(seq) = 1 THEN "" ELSE "," \o JsonArrayItems(Tail(seq)))

JsonArray(seq) == "[" \o JsonArrayItems(seq) \o "]"

(***************************************************************************)
(* rowToObject_ (src/Code.gs 543-550).  The object is kept as the sequence *)
(* of its properties in creation order; a repeated key keeps its first     *)
(* place and takes the last value, as a JavaScript object does.            *)
(***************************************************************************)
HeaderKey(hdrs, i) == IF hdrs[i] = "" THEN "Col" \o ToString(i) ELSE hdrs[i]

ObjKeys(obj) == [i \in 1..Len(obj) |-> obj[i][1]]

ObjHas(obj, k) == Contains(ObjKeys(obj), k)

\* obj[k], with undefined read as '' (every use in the code is `obj[k] || ''`
\* or serialises a defined value).
ObjGet(obj, k) == IF ObjHas(obj, k) THEN obj[IndexOf(ObjKeys(obj), k)][2] ELSE ""

ObjSet(obj, k, v) ==
    IF ObjHas(obj, k)
    THEN [obj EXCEPT ![IndexOf(ObjKeys(obj), k)] = <<k, v>>]
    ELSE Append(obj, <<k, v>>)

RECURSIVE RowToObjectFrom(_, _, _, _)
RowToObjectFrom(hdrs, values, i, obj) ==
    IF i > Len(hdrs) THEN obj
    ELSE RowToObjectFrom(hdrs, values, i + 1,
                         ObjSet(obj, HeaderKey(hdrs, i), values[i]))

rowToObject_(hdrs, values) == RowToObjectFrom(hdrs, values, 1, <<>>)

\* JSON.stringify of a row object: every cell value is a string.
JsonOfObj(obj) == JsonObject([i \in 1..Len(obj) |-> <<obj[i][1], JsonString(obj[i][2])>>])

(***************************************************************************)
(* computeMeaningfulSnapshotJson_ / computeMeaningfulHash_                 *)
(* (src/Code.gs 243-269).                                                  *)
(***************************************************************************)
RECURSIVE MeaningfulKeysAll(_, _, _, _)
MeaningfulKeysAll(hdrs, tracked, exempt, i) ==
    IF i > Len(hdrs) THEN <<>>
    ELSE <<HeaderKey(hdrs, i)>> \o MeaningfulKeysAll(hdrs, tracked, exempt, i + 1)

RECURSIVE MeaningfulKeysFrom(_, _, _, _)
MeaningfulKeysFrom(hdrs, tracked, exempt, i) ==
    IF i > Len(hdrs) THEN <<>>
    ELSE LET h == HeaderKey(hdrs, i)
             rest == MeaningfulKeysFrom(hdrs, tracked, exempt, i + 1)
         IN IF Contains(exempt, h) THEN rest
            ELSE IF Len(tracked) > 0 /\ ~Contains(tracked, h) THEN rest
            ELSE <<h>> \o rest

MeaningfulKeysUnsorted(hdrs, tracked, exempt) ==
    MeaningfulKeysFrom(hdrs, tracked, exempt, 1)

MeaningfulKeys(hdrs, tracked, exempt) ==
    Sort(MeaningfulKeysFrom(hdrs, tracked, exempt, 1))

RECURSIVE PickKeys(_, _, _)
PickKeys(obj, keys, out) ==
    IF Len(keys) = 0 THEN out
    ELSE PickKeys(obj, Tail(keys), ObjSet(out, keys[1], ObjGet(obj, keys[1])))

computeMeaningfulSnapshotJson_(hdrs, rowValues, tracked, exempt) ==
    LET obj == rowToObject_(hdrs, rowValues)
        keys == MeaningfulKeys(hdrs, tracked, exempt)
    IN JsonOfObj(PickKeys(obj, keys, <<>>))

computeMeaningfulHashConst(hdrs, rowValues, tracked, exempt) == sha256Hex_("{}")

computeMeaningfulHash_(hdrs, rowValues, tracked, exempt) ==
    sha256Hex_(computeMeaningfulSnapshotJson_(hdrs, rowValues, tracked, exempt))

(***************************************************************************)
(* The spreadsheet as the script sees it.  A store is a record             *)
(*   req  : data rows of Requests (row r of the sheet is req[r-HEADER_ROW])*)
(*   aud  : data rows of Audit, oldest first                               *)
(*   hdr  : whether Audit has its header row                               *)
(*   prot : range protections of Requests, in creation order               *)
(*   uuid : number of ids Utilities.getUuid() has handed out               *)
(***************************************************************************)
Trim(s) == s    \* no value of the model carries surrounding white space

RowValues(st, row) == st.req[row - HEADER_ROW]

SetCellNoop(st, row, col, value) == st

SetCell(st, row, col, value) ==
    [st EXCEPT !.req[row - HEADER_ROW][col] = value]

setCellByHeaderBlank(st, hdrs, row, headerName, value) ==
    LET idx == IndexOf(hdrs, headerName)
    IN IF idx = 0 THEN st ELSE SetCell(st, row, idx, "")

\* setCellByHeader_ (src/Code.gs 565-569)
setCellByHeader_(st, hdrs, row, headerName, value) ==
    LET idx == IndexOf(hdrs, headerName)
    IN IF idx = 0 THEN st ELSE SetCell(st, row, idx, value)

ensureRequestIdKeep(st, hdrs, row, rowObj) ==
    [st |-> st, id |-> Trim(ObjGet(rowObj, REQUEST_ID_HEADER)), ok |-> TRUE]

ensureRequestIdFresh(st, hdrs, row, rowObj) ==
    LET idx == IndexOf(hdrs, REQUEST_ID_HEADER)
        gen == "REQ-u" \o ToString(st.uuid + 1)
    IN IF idx = 0 THEN [st |-> st, id |-> "", ok |-> FALSE]
       ELSE [st |-> [SetCell(st, row, idx, gen) EXCEPT !.uuid = st.uuid + 1],
             id |-> gen, ok |-> TRUE]

\* ensureRequestId_ (src/Code.gs 552-563): the store after the call, the id,
\* and whether the call returned (FALSE: it threw "Missing required header").
ensureRequestId_(st, hdrs, row, rowObj) ==
    LET idx == IndexOf(hdrs, REQUEST_ID_HEADER)
        existing == Trim(ObjGet(rowObj, REQUEST_ID_HEADER))
        gen == "REQ-u" \o ToString(st.uuid + 1)
    IN IF idx = 0 THEN [st |-> st, id |-> "", ok |-> FALSE]
       ELSE IF existing # "" THEN [st |-> st, id |-> existing, ok |-> TRUE]
       ELSE [st |-> [SetCell(st, row, idx, gen) EXCEPT !.uuid = st.uuid + 1],
             id |-> gen, ok |-> TRUE]

\* audit.getLastRow()
AuditLastRow(st) == IF st.hdr THEN Len(st.aud) + 1 ELSE 0

\* appendAuditEvent_, first half (src/Code.gs 572-604): the header row is
\* ensured and the previous chain hash is read from the last data row.
ensureAuditHeader(st) == [st EXCEPT !.hdr = TRUE]

readPrevChainHashGenesis(st) == ""

readPrevChainHash(st) ==
    IF AUDIT_HASH_CHAIN /\ AuditLastRow(st) >= 2
    THEN Trim(st.aud[Len(st.aud)].ChainHash)
    ELSE ""

chainHashOfUnlinked(prevChainHash, snapshotHash) == sha256Hex_(snapshotHash)

\* chainHash = sha256Hex_(`${prevChainHash}\n${evt.snapshotHash}`) (605)
chainHashOf(prevChainHash, snapshotHash) ==
    IF AUDIT_HASH_CHAIN
    THEN sha256Hex_(prevChainHash \o "\n" \o snapshotHash)
    ELSE ""

appendAuditRowOverLast(st, evt, prevChainHash) ==
    LET kept == IF st.aud = <<>> THEN <<>>
                ELSE SubSeq(st.aud, 1, Len(st.aud) - 1)
    IN [st EXCEPT !.aud = Append(kept,
        [EventAt |-> evt.eventAt, Actor |-> evt.actor, Action |-> evt.action,
         RequestId |-> evt.requestId, RowNumber |-> evt.rowNumber,
         SnapshotJSON |-> evt.snapshotJson, SnapshotHash |-> evt.snapshotHash,
         PrevChainHash |-> prevChainHash,
         ChainHash |-> chainHashOf(prevChainHash, evt.snapshotHash)])]

\* appendAuditEvent_, second half (src/Code.gs 605-622): the row is built
\* from the previous chain hash read before, and appended.
appendAuditRow(st, evt, prevChainHash) ==
    [st EXCEPT !.aud = Append(st.aud,
        [EventAt |-> evt.eventAt, Actor |-> evt.actor, Action |-> evt.action,
         RequestId |-> evt.requestId, RowNumber |-> evt.rowNumber,
         SnapshotJSON |-> evt.snapshotJson, SnapshotHash |-> evt.snapshotHash,
         PrevChainHash |-> prevChainHash,
         ChainHash |-> chainHashOf(prevChainHash, evt.snapshotHash)])]

\* appendAuditEvent_ (src/Code.gs 571-623), run without interruption.
appendAuditEvent_(st, evt) ==
    LET s1 == ensureAuditHeader(st)
    IN appendAuditRow(s1, evt, readPrevChainHash(s1))

\* appendAuditEvent_ when audit.appendRow (src/Code.gs 622) throws: the
\* header row has been ensured and no row is added.  No caller catches the
\* error inside its loop, so the loop and the operation end there.
appendAuditEventThrows(st, evt) == ensureAuditHeader(st)

Event(eventAt, actor, action, requestId, rowNumber, snapshotJson, snapshotHash) ==
    [eventAt |-> eventAt, actor |-> actor, action |-> action,
     requestId |-> requestId, rowNumber |-> rowNumber,
     snapshotJson |-> snapshotJson, snapshotHash |-> snapshotHash]

\* A protection made by this script: its description is
\* `${prefix}:${requestId}:row=${row}` and its range is one whole row.
IsSystemGuard(p, row) ==
    p.row = row /\ p.numRows = 1 /\ p.prefix = LOCK_DESCRIPTION_PREFIX

protectRowAgain(st, row, requestId) ==
    [st EXCEPT !.prot = Append(st.prot,
        [row |-> row, numRows |-> 1, prefix |-> LOCK_DESCRIPTION_PREFIX,
         requestId |-> requestId])]

\* protectRow_ (src/Code.gs 648-676); LOCK_WARNING_ONLY is on, so the
\* editor restriction in the try block is skipped.
protectRow_(st, row, requestId) ==
    IF \E i \in 1..Len(st.prot) : IsSystemGuard(st.prot[i], row)
    THEN st
    ELSE [st EXCEPT !.prot = Append(st.prot,
            [row |-> row, numRows |-> 1, prefix |-> LOCK_DESCRIPTION_PREFIX,
             requestId |-> requestId])]

unprotectRowKeep(st, row) == st

\* unprotectRow_ (src/Code.gs 678-688)
unprotectRow_(st, row) ==
    LET Keep(p) == ~IsSystemGuard(p, row)
    IN [st EXCEPT !.prot = SelectSeq(st.prot, Keep)]

\* protectRow_ reaches range.protect() (src/Code.gs 522-524, 653-660): an
\* approval, with row locking on, of a row that has no guard of this script.
\* protect() is outside the only try block of protectRow_ (667-675) and
\* decideOnRowsImpl_ has none, so an error of it leaves rows.forEach.
protectCreates(st, row, status) ==
    /\ LOCK_ROW_ON_APPROVE
    /\ status = STATUS_APPROVED
    /\ ~\E i \in 1..Len(st.prot) : IsSystemGuard(st.prot[i], row)

decisionCellsAttributed(st, hdrs, row, status, actor, now, notes) ==
    setCellByHeader_(
      setCellByHeader_(
        setCellByHeader_(
          setCellByHeader_(st, hdrs, row, "Status", status),
          hdrs, row, "Approver", actor),
        hdrs, row, "DecisionAt", now),
      hdrs, row, "DecisionNotes", notes)

\* The Status cell and the three decision cells (src/Code.gs 487-498).
decisionCellsTerminal(st, hdrs, row, status, actor, now, notes) ==
    IF RowValues(st, row)[IndexOf(hdrs, "Status")] = STATUS_REJECTED THEN st
    ELSE setCellByHeader_(st, hdrs, row, "Status", status)

decisionCells(st, hdrs, row, status, actor, now, notes) ==
    LET s1 == setCellByHeader_(st, hdrs, row, "Status", status)
    IN IF status = STATUS_PENDING
       THEN setCellByHeader_(
              setCellByHeader_(
                setCellByHeader_(s1, hdrs, row, "Approver", ""),
                hdrs, row, "DecisionAt", ""),
              hdrs, row, "DecisionNotes", "")
       ELSE setCellByHeader_(
              setCellByHeader_(
                setCellByHeader_(s1, hdrs, row, "Approver", actor),
                hdrs, row, "DecisionAt", now),
              hdrs, row, "DecisionNotes", notes)

(***************************************************************************)
(* decideOnRowsImpl_, the body of rows.forEach (src/Code.gs 479-530).      *)
(* The result is the store after the row and whether the body returned;    *)
(* appendOk tells whether the audit append of this row succeeds, guardOk    *)
(* whether range.protect() does when protectRow_ comes to call it.          *)
(***************************************************************************)
decideRow(st, hdrs, tracked, exempt, row, status, actor, now, notes, appendOk, guardOk) ==
    IF row <= HEADER_ROW THEN [st |-> st, ok |-> TRUE]
    ELSE
    LET rowObj == rowToObject_(hdrs, RowValues(st, row))
        ens == ensureRequestId_(st, hdrs, row, rowObj)
        s2 == decisionCells(ens.st, hdrs, row, status, actor, now, notes)
        newValues == RowValues(s2, row)
        newObj == rowToObject_(hdrs, newValues)
        s3 == IF status = STATUS_APPROVED
              THEN setCellByHeader_(s2, hdrs, row, APPROVED_HASH_HEADER,
                       computeMeaningfulHash_(hdrs, newValues, tracked, exempt))
              ELSE s2
        snapshotJson == JsonOfObj(newObj)
        s4 == appendAuditEvent_(s3,
                 Event(now, actor, status, ens.id, row, snapshotJson,
                       sha256Hex_(snapshotJson)))
        s5 == IF LOCK_ROW_ON_APPROVE
              THEN IF status = STATUS_APPROVED
                   THEN protectRow_(s4, row, ens.id)
                   ELSE unprotectRow_(s4, row)
              ELSE s4
    IN IF ~ens.ok THEN [st |-> st, ok |-> FALSE]
       ELSE IF ~appendOk
       THEN [st |-> appendAuditEventThrows(s3,
                       Event(now, actor, status, ens.id, row, snapshotJson,
                             sha256Hex_(snapshotJson))),
             ok |-> FALSE]
       ELSE IF ~guardOk /\ protectCreates(s4, row, status)
       THEN [st |-> s4, ok |-> FALSE]
       ELSE [st |-> s5, ok |-> TRUE]

(***************************************************************************)
(* onEdit, the part run once under the lock (src/Code.gs 170-187) and the  *)
(* body of its loop over the affected rows (src/Code.gs 190-237).          *)
(***************************************************************************)
editedHeadersOf(hdrs, startCol, numCols) ==
    [i \in 1..numCols |->
        IF startCol + i - 1 <= Len(hdrs) /\ hdrs[startCol + i - 1] # ""
        THEN hdrs[startCol + i - 1]
        ELSE "Col" \o ToString(startCol + i - 1)]

isMeaningfulEditAny(editedHeaders, tracked, exempt) == Len(editedHeaders) > 0

\* editedHeaders.some(h => exempt.indexOf(h) === -1 &&
\*                         (tracked.length === 0 || tracked.indexOf(h) !== -1))
isMeaningfulEdit(editedHeaders, tracked, exempt) ==
    \E i \in 1..Len(editedHeaders) :
        /\ ~Contains(exempt, editedHeaders[i])
        /\ (Len(tracked) = 0 \/ Contains(tracked, editedHeaders[i]))

ObjAsJsonPairs(obj) == [i \in 1..Len(obj) |-> <<obj[i][1], JsonString(obj[i][2])>>]

inFromStatusesAlways(fromStatuses, status) == TRUE

\* reapprovalStatuses.indexOf(status) !== -1 (src/Code.gs 198-201)
inFromStatuses(fromStatuses, status) == Contains(fromStatuses, status)

onEditRow(st, hdrs, fromStatuses, r, editedHeaders, actor, now, appendOk) ==
    IF r <= HEADER_ROW THEN [st |-> st, ok |-> TRUE]
    ELSE
    LET rowObj == rowToObject_(hdrs, RowValues(st, r))
        status == Trim(ObjGet(rowObj, "Status"))
        ens == ensureRequestId_(st, hdrs, r, rowObj)
        s1 == setCellByHeader_(ens.st, hdrs, r, "Status", STATUS_PENDING)
        s2 == setCellByHeader_(s1, hdrs, r, "Approver", "")
        s3 == setCellByHeader_(s2, hdrs, r, "DecisionAt", "")
        s4 == setCellByHeader_(s3, hdrs, r, "DecisionNotes",
                 "Auto: re-approval required (was " \o status \o "; edited: "
                 \o Join(editedHeaders, ", ") \o ")")
        s5 == IF LOCK_ROW_ON_APPROVE THEN unprotectRow_(s4, r) ELSE s4
        newObj == rowToObject_(hdrs, RowValues(s5, r))
        snapshotJson ==
            JsonObject(ObjSet(ObjAsJsonPairs(newObj), "_reapproval",
                JsonObject(<< <<"editedHeaders", JsonArray(editedHeaders)>>,
                              <<"priorStatus", JsonString(status)>> >>)))
        s6 == appendAuditEvent_(s5,
                 Event(now, actor, "REAPPROVAL_REQUIRED", ens.id, r,
                       snapshotJson, sha256Hex_(snapshotJson)))
    IN IF ~inFromStatuses(fromStatuses, status) THEN [st |-> st, ok |-> TRUE]
       ELSE IF ~ens.ok THEN [st |-> st, ok |-> FALSE]
       ELSE IF ~appendOk
       THEN [st |-> appendAuditEventThrows(s5,
                       Event(now, actor, "REAPPROVAL_REQUIRED", ens.id, r,
                             snapshotJson, sha256Hex_(snapshotJson))),
             ok |-> FALSE]
       ELSE [st |-> s6, ok |-> TRUE]

(***************************************************************************)
(* scanForReapprovalNeeded, the body of its loop (src/Code.gs 315-374).    *)
(* rowValues is the row as read before the loop (src/Code.gs 308).         *)
(***************************************************************************)
scanRow(st, hdrs, tracked, exempt, rowNumber, rowValues, actor, now, appendOk) ==
    LET idxStatus == IndexOf(hdrs, "Status")
        idxApprovedHash == IndexOf(hdrs, APPROVED_HASH_HEADER)
        status == Trim(rowValues[idxStatus])
        ens == ensureRequestId_(st, hdrs, rowNumber, rowToObject_(hdrs, rowValues))
        computed == computeMeaningfulHash_(hdrs, rowValues, tracked, exempt)
        stored == Trim(rowValues[idxApprovedHash])
        \* first time: set the hash, no re-approval
        h1 == SetCell(ens.st, rowNumber, idxApprovedHash, computed)
        setJson == JsonObject(<< <<"rowNumber", ToString(rowNumber)>>,
                                 <<"computedMeaningfulHash", JsonString(computed)>> >>)
        h2 == appendAuditEvent_(h1,
                 Event(now, actor, "APPROVAL_HASH_SET", ens.id, rowNumber,
                       setJson, sha256Hex_("set:" \o computed)))
        \* drift: revert to pending
        d1 == setCellByHeader_(ens.st, hdrs, rowNumber, "Status", STATUS_PENDING)
        d2 == setCellByHeader_(d1, hdrs, rowNumber, "Approver", "")
        d3 == setCellByHeader_(d2, hdrs, rowNumber, "DecisionAt", "")
        d4 == setCellByHeader_(d3, hdrs, rowNumber, "DecisionNotes",
                 "Auto: re-approval required (hash mismatch; run scan)")
        d5 == IF LOCK_ROW_ON_APPROVE THEN unprotectRow_(d4, rowNumber) ELSE d4
        postObj == rowToObject_(hdrs, RowValues(d5, rowNumber))
        snapshotJson ==
            JsonObject(ObjSet(ObjAsJsonPairs(postObj), "_reapproval",
                JsonObject(<< <<"reason", JsonString("hash_mismatch")>>,
                              <<"storedMeaningfulHash", JsonString(stored)>>,
                              <<"computedMeaningfulHash", JsonString(computed)>> >>)))
        d6 == appendAuditEvent_(d5,
                 Event(now, actor, "REAPPROVAL_REQUIRED", ens.id, rowNumber,
                       snapshotJson, sha256Hex_(snapshotJson)))
        same == [st |-> st, ok |-> TRUE, set |-> 0, reopened |-> 0]
    IN IF status # STATUS_APPROVED THEN same
       ELSE IF ~ens.ok THEN [same EXCEPT !.ok = FALSE]
       ELSE IF stored = "" /\ ~appendOk
       THEN [st |-> appendAuditEventThrows(h1,
                       Event(now, actor, "APPROVAL_HASH_SET", ens.id, rowNumber,
                             setJson, sha256Hex_("set:" \o computed))),
             ok |-> FALSE, set |-> 1, reopened |-> 0]
       ELSE IF stored = "" THEN [st |-> h2, ok |-> TRUE, set |-> 1, reopened |-> 0]
       ELSE IF stored # computed /\ ~appendOk
       THEN [st |-> appendAuditEventThrows(d5,
                       Event(now, actor, "REAPPROVAL_REQUIRED", ens.id, rowNumber,
                             snapshotJson, sha256Hex_(snapshotJson))),
             ok |-> FALSE, set |-> 0, reopened |-> 0]
       ELSE IF stored # computed THEN [st |-> d6, ok |-> TRUE, set |-> 0, reopened |-> 1]
       ELSE [same EXCEPT !.st = ens.st]

(***************************************************************************)
(* State.                                                                  *)
(***************************************************************************)
VARIABLES
    headers,      \* header row of Requests
    cfg,          \* CFG.REAPPROVAL_TRACKED_HEADERS, CFG.REAPPROVAL_FROM_STATUSES
    requests,     \* data rows of Requests
    audit,        \* data rows of Audit
    auditHdr,     \* Audit has its header row
    protections,  \* range protections of Requests
    uuid,         \* ids handed out by Utilities.getUuid()
    lock,         \* holder of LockService.getDocumentLock(), or NoProc
    installed,    \* the installable trigger onEditInstallable exists
    proc          \* the script executions in flight

vars == <<headers, cfg, requests, audit, auditHdr, protections, uuid, lock,
          installed, proc>>

Store == [req |-> requests, aud |-> audit, hdr |-> auditHdr,
          prot |-> protections, uuid |-> uuid]

Commit(st) ==
    /\ requests' = st.req
    /\ audit' = st.aud
    /\ auditHdr' = st.hdr
    /\ protections' = st.prot
    /\ uuid' = st.uuid

StoreUnchanged == UNCHANGED <<requests, audit, auditHdr, protections, uuid>>

\* One execution.  pc: "idle"; "wait" (blocked in lock.waitLock); "run"
\* (inside try, lock held; the loop is over once idx > Len(rows));
\* "demoRead"/"demoAppend" (createDemoSetup, before and after
\* appendAuditEvent_ has read the last chain hash); "done" (returned
\* without ever asking for the lock).  audit0 and req0 are the ledger length
\* and the sheet the execution found when it started to run; auditAtEdit
\* and sheetAtEdit are those the edit left that an onEdit handler is for;
\* second marks the handler of an edit that runs after the other one.
\* An idle slot remembers in last that scanForReapprovalNeeded was the last
\* execution and nothing has been called or written since; a scan called
\* then has again set.  In the same way last = "write" and wrote = r say
\* that the last thing to happen was a write to row r that started no
\* trigger; a scan called then has wrote = r.  denied is the row whose
\* guard the execution was refused to create, 0 when none was.
IdleProc ==
    [pc |-> "idle", op |-> "none", handler |-> "", status |-> "", actor |-> "",
     now |-> "", notes |-> "", single |-> FALSE, promptOk |-> TRUE,
     startRow |-> 0, numRows |-> 0, startCol |-> 0, numCols |-> 0,
     rows |-> <<>>, idx |-> 1, edited |-> <<>>, values |-> <<>>,
     prev |-> "", setCount |-> 0, reapprovalCount |-> 0, err |-> "",
     audit0 |-> 0, req0 |-> <<>>, second |-> FALSE, auditAtEdit |-> 0,
     sheetAtEdit |-> <<>>, again |-> FALSE, last |-> "", wrote |-> 0,
     denied |-> 0]

LastRow == Len(requests) + HEADER_ROW      \* reqSheet.getLastRow()

\* Ranges a user can select or edit: whole rows startRow..startRow+numRows-1
\* of the sheet, header row included.
Ranges ==
    { rg \in (1..(NRows + HEADER_ROW)) \X (1..(NRows + HEADER_ROW)) :
        rg[1] + rg[2] - 1 <= NRows + HEADER_ROW }

DataRowsOf(startRow, numRows) ==
    { r \in startRow..(startRow + numRows - 1) : r > HEADER_ROW }

\* Columns a user edits: Title alone, Approver alone.
EditColumns == { <<2, 1>>, <<5, 1>> }

\* Audit rows the executions in flight may still append.
ApprovedRows == { i \in 1..Len(requests) : requests[i][4] = STATUS_APPROVED }

Pending(p) ==
    IF proc[p].pc \in {"wait", "run"}
    THEN (IF proc[p].op = "scan" THEN Len(requests)
          ELSE IF proc[p].pc = "wait"
               THEN Cardinality(DataRowsOf(proc[p].startRow, proc[p].numRows))
               ELSE Len(proc[p].rows) - proc[p].idx + 1)
    ELSE IF proc[p].pc \in {"demoRead", "demoAppend"} THEN 1
    ELSE 0

RECURSIVE SumPending(_)
SumPending(n) == IF n = 0 THEN 0 ELSE Pending(n) + SumPending(n - 1)

\* The demo rows are four, two of them APPROVED: a scan of them needs a
\* third audit row after the DEMO_SETUP event.
AuditCap == IF Len(requests) > NRows THEN MaxSeedAudit ELSE MaxAudit

Room == AuditCap - Len(audit) - SumPending(NProcs)

IdleProcs == { p \in Procs : proc[p].pc = "idle" }
FirstIdle == CHOOSE p \in IdleProcs : \A q \in IdleProcs : p <= q
SecondIdle == CHOOSE p \in IdleProcs \ {FirstIdle} :
                  \A q \in IdleProcs \ {FirstIdle} : p <= q

(***************************************************************************)
(* Initial states: a Requests sheet with NRows rows made outside the       *)
(* script, an empty Audit sheet, no protections, no execution in flight.   *)
(***************************************************************************)
RowKinds == {"pendingNoId", "approved", "rejected"}

InitRow(r, kind) ==
    LET id == "REQ-000" \o ToString(r)
    IN CASE kind = "pendingNoId" ->
              <<"", "t1", "req", STATUS_PENDING, "", "", "", "">>
         [] kind = "pending" ->
              <<id, "t1", "req", STATUS_PENDING, "", "", "", "">>
         [] kind = "approved" ->
              <<id, "t1", "req", STATUS_APPROVED, "carol", "T0", "n0", "">>
         [] kind = "rejected" ->
              <<id, "t1", "req", STATUS_REJECTED, "carol", "T0", "n0", "">>

Init ==
    /\ headers = RequestsHeaders
    /\ cfg \in CfgChoices
    /\ \E kinds \in [1..NRows -> RowKinds] :
          requests = [i \in 1..NRows |-> InitRow(i + HEADER_ROW, kinds[i])]
    /\ audit = <<>>
    /\ auditHdr = FALSE
    /\ protections = <<>>
    /\ uuid = 0
    /\ lock = NoProc
    /\ installed = FALSE
    /\ proc = [p \in Procs |-> IdleProc]

\* A Requests sheet made without one of the columns the script writes
\* (src/SHEET-SCHEMA.md 11-17; the names used at src/Code.gs 487-497, 552).
RequiredHeaders ==
    <<REQUEST_ID_HEADER, "Status", "Approver", "DecisionAt", "DecisionNotes">>

DropAt(seq, k) ==
    [i \in 1..(Len(seq) - 1) |-> IF i < k THEN seq[i] ELSE seq[i + 1]]

HeaderInit ==
    /\ \E h \in 1..Len(RequiredHeaders), kinds \in [1..NRows -> RowKinds] :
          LET k == IndexOf(RequestsHeaders, RequiredHeaders[h])
          IN /\ headers = DropAt(RequestsHeaders, k)
             /\ requests = [i \in 1..NRows |->
                               DropAt(InitRow(i + HEADER_ROW, kinds[i]), k)]
    /\ cfg \in CfgChoices
    /\ audit = <<>>
    /\ auditHdr = FALSE
    /\ protections = <<>>
    /\ uuid = 0
    /\ lock = NoProc
    /\ installed = FALSE
    /\ proc = [p \in Procs |-> IdleProc]

(***************************************************************************)
(* Scheduling.  An execution that has returned leaves before anything else *)
(* happens: its return touches no shared state.                            *)
(***************************************************************************)
NoneDone == \A p \in Procs : proc[p].pc # "done"

\* A call or a write ends "nothing has happened since the last scan".
AfterScan == \E p \in Procs : proc[p].pc = "idle" /\ proc[p].last = "scan"
WrittenRow ==
    IF \E p \in Procs : proc[p].pc = "idle" /\ proc[p].last = "write"
    THEN proc[CHOOSE p \in Procs :
                  proc[p].pc = "idle" /\ proc[p].last = "write"].wrote
    ELSE 0
Forgotten == [p \in Procs |-> IF proc[p].pc = "idle" THEN IdleProc ELSE proc[p]]
Quiet == \A p \in Procs : proc[p].pc = "idle"

SeqOf(startRow, numRows) == [i \in 1..numRows |-> startRow + i - 1]

DataSeqOf(startRow, numRows) ==
    LET IsData(r) == r > HEADER_ROW
    IN SelectSeq(SeqOf(startRow, numRows), IsData)

WaitLockBarging(p, me, entered) ==
    /\ lock' = p
    /\ proc' = [Forgotten EXCEPT ![p] = entered]

\* lock.waitLock(30 * 1000) by execution p with call record me: the lock is
\* taken at once when free (the execution goes on as entered), else p blocks.
WaitLock(p, me, entered) ==
    IF lock = NoProc
    THEN /\ lock' = p
         /\ proc' = [Forgotten EXCEPT ![p] = entered]
    ELSE /\ lock' = lock
         /\ proc' = [Forgotten EXCEPT ![p] = [me EXCEPT !.pc = "wait"]]

\* A blocked lock.waitLock returns once the lock is free.
LockGranted(p, entered) ==
    /\ proc[p].pc = "wait"
    /\ lock = NoProc
    /\ lock' = p
    /\ proc' = [proc EXCEPT ![p] = entered]

(***************************************************************************)
(* Menu actions approve/reject/reset (src/Code.gs 382-404) calling         *)
(* decideOnSelectedRow_ (406-425) or decideOnSelectedRows_ (427-453).      *)
(* The active range and the answer to the notes prompt are inputs.         *)
(***************************************************************************)
DecideCall(single, status, rg, actor, now, notes, promptOk) ==
    [IdleProc EXCEPT !.op = "decide", !.single = single, !.status = status,
                     !.startRow = rg[1], !.numRows = rg[2], !.actor = actor,
                     !.now = now, !.notes = notes, !.promptOk = promptOk]

DecideEnteredUnchecked(me) ==
    LET rows == DataSeqOf(me.startRow, me.numRows)
        cancelled == me.status # STATUS_PENDING /\ ~me.promptOk
    IN [me EXCEPT !.pc = "run", !.err = "",
                  !.rows = IF cancelled THEN <<>> ELSE rows,
                  !.idx = 1, !.audit0 = Len(audit), !.req0 = requests,
                  !.single = (rows = <<>> \/ cancelled) /\ me.single,
                  !.startRow = IF rows = <<>> \/ cancelled THEN me.startRow ELSE 0,
                  !.numRows = IF rows = <<>> \/ cancelled THEN me.numRows ELSE 0]

\* Selection checks and decideOnRowsImpl_ up to its loop
\* (src/Code.gs 410-421 / 431-449, 456-477), the lock being held.
DecideEntered(me) ==
    LET rows == IF me.single THEN <<me.startRow>>
                ELSE DataSeqOf(me.startRow, me.numRows)
        err == IF me.single /\ me.startRow <= HEADER_ROW
               THEN "Select a data row (not the header)."
               ELSE IF ~me.single /\ Len(rows) = 0
               THEN "Select at least one data row (not the header)."
               ELSE ""
        cancelled == me.status # STATUS_PENDING /\ ~me.promptOk
    IN [me EXCEPT !.pc = "run", !.err = err,
                  !.rows = IF err # "" \/ cancelled THEN <<>> ELSE rows,
                  !.idx = 1, !.audit0 = Len(audit), !.req0 = requests,
                  \* the selection is not read again; it stays on record
                  \* where the call comes to handle no row
                  !.single = (err # "" \/ cancelled) /\ me.single,
                  !.startRow = IF err # "" \/ cancelled THEN me.startRow ELSE 0,
                  !.numRows = IF err # "" \/ cancelled THEN me.numRows ELSE 0]

InvokeDecide(single, status, rg, actor, now, notes, promptOk) ==
    /\ NoneDone
    /\ IdleProcs # {}
    /\ Room >= Cardinality(DataRowsOf(rg[1], rg[2]))
    /\ single => rg[2] = 1
    /\ status = STATUS_PENDING => promptOk
    /\ LET me == DecideCall(single, status, rg, actor, now, notes, promptOk)
       IN WaitLock(FirstIdle, me, DecideEntered(me))
    /\ UNCHANGED <<headers, cfg, installed>>
    /\ StoreUnchanged

AcquireDecide(p) ==
    /\ NoneDone
    /\ proc[p].op = "decide"
    /\ LockGranted(p, DecideEntered(proc[p]))
    /\ UNCHANGED <<headers, cfg, installed>>
    /\ StoreUnchanged

\* One pass of rows.forEach (src/Code.gs 479-530).
DecideStep(p) ==
    /\ NoneDone
    /\ proc[p].pc = "run" /\ proc[p].op = "decide"
    /\ proc[p].idx <= Len(proc[p].rows)
    /\ LET me == proc[p]
           res == decideRow(Store, headers, cfg.tracked,
                            REAPPROVAL_EXEMPT_HEADERS, me.rows[me.idx],
                            me.status, me.actor, me.now, me.notes, TRUE, TRUE)
       IN /\ Commit(res.st)
          /\ proc' = [proc EXCEPT ![p] =
                        IF res.ok THEN [me EXCEPT !.idx = me.idx + 1]
                        ELSE [me EXCEPT !.idx = Len(me.rows) + 1,
                                        !.err = "Missing required header: RequestId"]]
    /\ UNCHANGED <<headers, cfg, lock, installed>>

(***************************************************************************)
(* A user edit of Requests and the handlers Sheets starts for it: the      *)
(* simple trigger onEdit (src/Code.gs 154-166, up to the lock) and, when   *)
(* installed, onEditInstallable (138-146).  An edit that covers the header *)
(* row rewrites the header texts as they are.                              *)
(***************************************************************************)
\* What the user types: a title into Title, a name into Approver; the
\* RequestId cell is cleared.
EditValue(col, v) == IF col = 2 THEN v ELSE IF col = 1 THEN "" ELSE "carol"

EditedSheet(rg, cols, v) ==
    [i \in 1..Len(requests) |->
        [c \in 1..Len(requests[i]) |->
            IF /\ i + HEADER_ROW \in DataRowsOf(rg[1], rg[2])
               /\ c \in cols[1]..(cols[1] + cols[2] - 1)
            THEN EditValue(c, v)
            ELSE requests[i][c]]]

OnEditCall(handler, rg, cols, actor, now) ==
    [IdleProc EXCEPT !.op = "onEdit", !.handler = handler,
                     !.startRow = rg[1], !.numRows = rg[2],
                     !.startCol = cols[1], !.numCols = cols[2],
                     !.actor = actor, !.now = now]

\* onEdit returns before asking for the lock (src/Code.gs 155-163).
onEditSkips(me) == ~REAPPROVAL_ON_CHANGE \/ me.startRow <= HEADER_ROW

\* Headers and the meaningful test (src/Code.gs 169-187), the lock being
\* held; sheet is Requests as the handler finds it.
OnEditEntered(me, sheet) ==
    LET edited == editedHeadersOf(headers, me.startCol, me.numCols)
        meaningful == isMeaningfulEdit(edited, cfg.tracked,
                                       REAPPROVAL_EXEMPT_HEADERS)
    IN [me EXCEPT !.pc = "run", !.edited = edited,
                  !.rows = IF meaningful THEN SeqOf(me.startRow, me.numRows)
                           ELSE <<>>,
                  !.idx = 1, !.audit0 = Len(audit), !.req0 = sheet,
                  \* the range is not read again
                  !.startCol = 0, !.numCols = 0]

\* simpleFirst: of the two handlers of one edit, onEdit asks for the lock
\* before onEditInstallable does.
UserEdit(rg, cols, v, actor, now, simpleFirst) ==
    /\ NoneDone
    /\ Cardinality(IdleProcs) >= (IF installed THEN 2 ELSE 1)
    /\ Room >= (IF installed THEN 2 ELSE 1) * Cardinality(DataRowsOf(rg[1], rg[2]))
    /\ ~installed => simpleFirst
    /\ requests' = EditedSheet(rg, cols, v)
    /\ LET sheet == EditedSheet(rg, cols, v)
           call(handler) ==
               [OnEditCall(handler, rg, cols, actor, now)
                   EXCEPT !.auditAtEdit = Len(audit), !.sheetAtEdit = sheet]
           first == call(IF simpleFirst THEN "onEdit" ELSE "onEditInstallable")
           second == [call(IF simpleFirst THEN "onEditInstallable" ELSE "onEdit")
                         EXCEPT !.second = TRUE]
           skip == onEditSkips(first)
           returned(me) == [me EXCEPT !.pc = "done", !.audit0 = Len(audit),
                                      !.req0 = sheet]
       IN /\ lock' = IF skip \/ lock # NoProc THEN lock ELSE FirstIdle
          /\ proc' = [p \in Procs |->
                        IF p = FirstIdle
                        THEN IF skip THEN returned(first)
                             ELSE IF lock = NoProc THEN OnEditEntered(first, sheet)
                             ELSE [first EXCEPT !.pc = "wait"]
                        ELSE IF installed /\ p = SecondIdle
                        THEN IF skip THEN returned(second)
                             ELSE [second EXCEPT !.pc = "wait"]
                        ELSE Forgotten[p]]
    /\ UNCHANGED <<headers, cfg, audit, auditHdr, protections, uuid, installed>>

\* The handler that asked second is granted the lock after the other one.
AcquireOnEdit(p) ==
    /\ NoneDone
    /\ proc[p].op = "onEdit"
    /\ proc[p].second =>
          ~\E q \in Procs : /\ proc[q].pc = "wait" /\ proc[q].op = "onEdit"
                            /\ ~proc[q].second
    /\ LockGranted(p, OnEditEntered(proc[p], requests))
    /\ UNCHANGED <<headers, cfg, installed>>
    /\ StoreUnchanged

\* One pass of the loop over the affected rows (src/Code.gs 190-237).
OnEditStep(p) ==
    /\ NoneDone
    /\ proc[p].pc = "run" /\ proc[p].op = "onEdit"
    /\ proc[p].idx <= Len(proc[p].rows)
    /\ LET me == proc[p]
           res == onEditRow(Store, headers, cfg.fromStatuses, me.rows[me.idx],
                            me.edited, me.actor, me.now, TRUE)
       IN /\ Commit(res.st)
          /\ proc' = [proc EXCEPT ![p] =
                        IF res.ok THEN [me EXCEPT !.idx = me.idx + 1]
                        ELSE [me EXCEPT !.idx = Len(me.rows) + 1,
                                        !.err = "Missing required header: RequestId"]]
    /\ UNCHANGED <<headers, cfg, lock, installed>>

\* A write to Requests that starts no trigger (import, another script).
ExternalWrite(r, v) ==
    /\ NoneDone
    /\ r \in 1..Len(requests)
    /\ requests[r][2] # v
    /\ requests' = [requests EXCEPT ![r][2] = v]
    /\ proc' = IF IdleProcs = {} THEN Forgotten
                ELSE [Forgotten EXCEPT ![FirstIdle] =
                        [IdleProc EXCEPT !.last = "write",
                                         !.wrote = r + HEADER_ROW]]
    /\ UNCHANGED <<headers, cfg, audit, auditHdr, protections, uuid, lock,
                   installed>>

(***************************************************************************)
(* scanForReapprovalNeeded (src/Code.gs 283-380).                          *)
(***************************************************************************)
ScanCall(actor, now) ==
    [IdleProc EXCEPT !.op = "scan", !.actor = actor, !.now = now,
                     !.again = AfterScan, !.wrote = WrittenRow]

\* Checks, and all data rows read at once (src/Code.gs 288-313).
ScanEntered(me) ==
    LET err == IF IndexOf(headers, "Status") = 0
               THEN "Missing required header: Status" ELSE ""
        nothing == \/ err # ""
                   \/ IndexOf(headers, APPROVED_HASH_HEADER) = 0
                   \/ LastRow <= HEADER_ROW
    IN [me EXCEPT !.pc = "run", !.err = err,
                  !.values = IF nothing THEN <<>> ELSE requests,
                  !.rows = IF nothing THEN <<>>
                           ELSE SeqOf(HEADER_ROW + 1, LastRow - HEADER_ROW),
                  !.idx = 1, !.audit0 = Len(audit), !.req0 = requests]

InvokeScanEager(actor, now) ==
    /\ NoneDone
    /\ IdleProcs # {}
    /\ Room >= Cardinality(ApprovedRows)
    /\ LET me == ScanCall(actor, now)
       IN WaitLock(FirstIdle, me, ScanEntered(me))
    /\ auditHdr' = TRUE
    /\ UNCHANGED <<headers, cfg, installed, requests, audit, protections, uuid>>

InvokeScan(actor, now) ==
    /\ NoneDone
    /\ IdleProcs # {}
    /\ Room >= Cardinality(ApprovedRows)
    /\ LET me == ScanCall(actor, now)
       IN WaitLock(FirstIdle, me, ScanEntered(me))
    /\ UNCHANGED <<headers, cfg, installed>>
    /\ StoreUnchanged

AcquireScan(p) ==
    /\ NoneDone
    /\ proc[p].op = "scan"
    /\ LockGranted(p, [ScanEntered(proc[p]) EXCEPT !.again = FALSE, !.wrote = 0])
    /\ UNCHANGED <<headers, cfg, installed>>
    /\ StoreUnchanged

\* One pass of the loop over the rows read (src/Code.gs 315-374).
ScanStepMiscount(p) ==
    /\ NoneDone
    /\ proc[p].pc = "run" /\ proc[p].op = "scan"
    /\ proc[p].idx <= Len(proc[p].rows)
    /\ LET me == proc[p]
           rowNumber == me.rows[me.idx]
           res == scanRow(Store, headers, cfg.tracked, REAPPROVAL_EXEMPT_HEADERS,
                          rowNumber, me.values[rowNumber - HEADER_ROW],
                          me.actor, me.now, TRUE)
       IN /\ Len(res.st.aud) <= AuditCap
          /\ Commit(res.st)
          /\ proc' = [proc EXCEPT ![p] =
                        [me EXCEPT !.idx = me.idx + 1,
                                   !.setCount = me.setCount + 1]]
    /\ UNCHANGED <<headers, cfg, lock, installed>>

ScanStep(p) ==
    /\ NoneDone
    /\ proc[p].pc = "run" /\ proc[p].op = "scan"
    /\ proc[p].idx <= Len(proc[p].rows)
    /\ LET me == proc[p]
           rowNumber == me.rows[me.idx]
           res == scanRow(Store, headers, cfg.tracked, REAPPROVAL_EXEMPT_HEADERS,
                          rowNumber, me.values[rowNumber - HEADER_ROW],
                          me.actor, me.now, TRUE)
       IN /\ Len(res.st.aud) <= AuditCap
          /\ Commit(res.st)
          /\ proc' = [proc EXCEPT ![p] =
                        IF res.ok
                        THEN [me EXCEPT !.idx = me.idx + 1,
                                        !.setCount = me.setCount + res.set,
                                        !.reapprovalCount = me.reapprovalCount + res.reopened]
                        ELSE [me EXCEPT !.idx = Len(me.rows) + 1,
                                        !.err = "Missing required header: RequestId"]]
    /\ UNCHANGED <<headers, cfg, lock, installed>>

(***************************************************************************)
(* The audit append of the row at hand throws (the Sheets service fails,   *)
(* the caller may not write to Audit).  The error leaves rows.forEach or    *)
(* the for loop (src/Code.gs 442-445, 190-237, 315-374); nothing is caught  *)
(* before the finally block, and the rows not yet reached are not handled.  *)
(***************************************************************************)
AuditAppendFailed == "audit.appendRow failed"

ThrownContinues(me) == [me EXCEPT !.idx = me.idx + 1, !.err = AuditAppendFailed]

Thrown(me) == [me EXCEPT !.idx = Len(me.rows) + 1, !.err = AuditAppendFailed]

\* decideOnRowsImpl_: src/Code.gs 511 throws.
DecideAppendFails(p) ==
    /\ NoneDone
    /\ proc[p].pc = "run" /\ proc[p].op = "decide"
    /\ proc[p].idx <= Len(proc[p].rows)
    /\ LET me == proc[p]
           res == decideRow(Store, headers, cfg.tracked,
                            REAPPROVAL_EXEMPT_HEADERS, me.rows[me.idx],
                            me.status, me.actor, me.now, me.notes, FALSE, TRUE)
       IN /\ ~res.ok
          /\ Commit(res.st)
          /\ proc' = [proc EXCEPT ![p] = Thrown(me)]
    /\ UNCHANGED <<headers, cfg, lock, installed>>

\* onEdit: src/Code.gs 228 throws.
OnEditAppendFails(p) ==
    /\ NoneDone
    /\ proc[p].pc = "run" /\ proc[p].op = "onEdit"
    /\ proc[p].idx <= Len(proc[p].rows)
    /\ LET me == proc[p]
           res == onEditRow(Store, headers, cfg.fromStatuses, me.rows[me.idx],
                            me.edited, me.actor, me.now, FALSE)
       IN /\ ~res.ok
          /\ Commit(res.st)
          /\ proc' = [proc EXCEPT ![p] = Thrown(me)]
    /\ UNCHANGED <<headers, cfg, lock, installed>>

\* scanForReapprovalNeeded: src/Code.gs 330 or 362 throws.
ScanAppendFails(p) ==
    /\ NoneDone
    /\ proc[p].pc = "run" /\ proc[p].op = "scan"
    /\ proc[p].idx <= Len(proc[p].rows)
    /\ LET me == proc[p]
           rowNumber == me.rows[me.idx]
           res == scanRow(Store, headers, cfg.tracked, REAPPROVAL_EXEMPT_HEADERS,
                          rowNumber, me.values[rowNumber - HEADER_ROW],
                          me.actor, me.now, FALSE)
       IN /\ ~res.ok
          /\ Commit(res.st)
          /\ proc' = [proc EXCEPT ![p] =
                        [Thrown(me) EXCEPT !.setCount = me.setCount + res.set]]
    /\ UNCHANGED <<headers, cfg, lock, installed>>

\* decideOnRowsImpl_: range.protect() (src/Code.gs 660, called from 524) is
\* refused for the row at hand.  The row is written and its event appended;
\* the error leaves rows.forEach.
ProtectDenied == "You do not have permission to protect this range"

DecideGuardDenied(p) ==
    /\ NoneDone
    /\ proc[p].pc = "run" /\ proc[p].op = "decide"
    /\ proc[p].idx <= Len(proc[p].rows)
    /\ LET me == proc[p]
           res == decideRow(Store, headers, cfg.tracked,
                            REAPPROVAL_EXEMPT_HEADERS, me.rows[me.idx],
                            me.status, me.actor, me.now, me.notes, TRUE, FALSE)
       IN /\ ~res.ok
          /\ Commit(res.st)
          /\ proc' = [proc EXCEPT ![p] =
                        [me EXCEPT !.idx = Len(me.rows) + 1,
                                   !.err = ProtectDenied,
                                   !.denied = me.rows[me.idx]]]
    /\ UNCHANGED <<headers, cfg, lock, installed>>

(***************************************************************************)
(* finally { lock.releaseLock() } and the return to the caller; the return *)
(* of an execution that never asked for the lock.                          *)
(***************************************************************************)
Finished(p) == proc[p].pc = "run" /\ proc[p].idx > Len(proc[p].rows)

ReleaseForgotten(p) ==
    /\ NoneDone
    /\ Finished(p)
    /\ lock' = lock
    /\ proc' = [proc EXCEPT ![p] = IdleProc]
    /\ UNCHANGED <<headers, cfg, installed>>
    /\ StoreUnchanged

Release(p) ==
    /\ NoneDone
    /\ Finished(p)
    /\ lock' = NoProc
    /\ proc' = [proc EXCEPT ![p] =
                  IF proc[p].op = "scan" /\ proc[p].err = ""
                  THEN [IdleProc EXCEPT !.last = "scan"]
                  ELSE IF proc[p].err \in {AuditAppendFailed, ProtectDenied}
                  THEN [IdleProc EXCEPT !.last = "failed"]
                  ELSE IdleProc]
    /\ UNCHANGED <<headers, cfg, installed>>
    /\ StoreUnchanged

\* lock.waitLock(30 * 1000) throws: another execution has held the lock
\* for the whole wait (src/Code.gs 166, 285, 408, 429).  The call is outside
\* the try block, so the error goes to the caller and nothing else runs.
LockTimeoutError == "Lock timeout: another process was holding the lock for too long."

LockTimeout(p) ==
    /\ NoneDone
    /\ proc[p].pc = "wait"
    /\ lock # NoProc
    /\ proc' = [proc EXCEPT ![p] =
                  [proc[p] EXCEPT !.pc = "done", !.err = LockTimeoutError]]
    /\ UNCHANGED <<headers, cfg, lock, installed>>
    /\ StoreUnchanged

Return(p) ==
    /\ proc[p].pc = "done"
    /\ proc' = [proc EXCEPT ![p] = IdleProc]
    /\ UNCHANGED <<headers, cfg, lock, installed>>
    /\ StoreUnchanged

(***************************************************************************)
(* installReapprovalTrigger / removeInstalledApprovalTriggers (100-132).   *)
(***************************************************************************)
installReapprovalTrigger ==
    /\ NoneDone
    /\ ~installed
    /\ installed' = TRUE
    /\ UNCHANGED <<headers, cfg, lock, proc>>
    /\ StoreUnchanged

removeInstalledApprovalTriggers ==
    /\ NoneDone
    /\ installed
    /\ installed' = FALSE
    /\ UNCHANGED <<headers, cfg, lock, proc>>
    /\ StoreUnchanged

(***************************************************************************)
(* createDemoSetup (src/Code.gs 698-773).  It takes no lock.  Its call of  *)
(* appendAuditEvent_ is two steps: the last chain hash is read, then the   *)
(* row is appended.                                                        *)
(***************************************************************************)
\* The rows seeded into an empty Requests sheet (src/Code.gs 712-744).
demoSeed(st, hdrs, iso, tracked, exempt) ==
    LET seeded == [st EXCEPT !.req =
            << <<"REQ-0001", "Purchase approval: lab supplies", "alex@example.com",
                 STATUS_PENDING, "", "", "", "">>,
               <<"REQ-0002", "Vendor onboarding: ACME Co.", "sam@example.com",
                 STATUS_APPROVED, "approver@example.com", iso,
                 "Approved for Q1; within budget.", "">>,
               <<"REQ-0003", "Access request: finance drive", "taylor@example.com",
                 STATUS_REJECTED, "approver@example.com", iso,
                 "Rejected: least privilege - request specific folder.", "">>,
               <<"REQ-0004", "Equipment purchase: thermal camera", "jordan@example.com",
                 STATUS_APPROVED, "approver@example.com", iso,
                 "Approved: use preferred vendor.", "">> >>]
        idxApprovedHash == IndexOf(hdrs, APPROVED_HASH_HEADER)
        h3 == SetCell(seeded, 3, idxApprovedHash,
                 computeMeaningfulHash_(hdrs, RowValues(seeded, 3), tracked, exempt))
        h5 == SetCell(h3, 5, idxApprovedHash,
                 computeMeaningfulHash_(hdrs, RowValues(h3, 5), tracked, exempt))
        drift == setCellByHeader_(h5, hdrs, 5, "Title",
                 "Equipment purchase: thermal camera (spec updated)")
    IN IF Len(st.req) + HEADER_ROW > HEADER_ROW THEN st
       ELSE IF idxApprovedHash = 0 THEN seeded
       ELSE drift

demoEvent(actor, now, lastRow) ==
    Event(now, actor, "DEMO_SETUP", "n/a", 0,
          JsonObject(<< <<"sheet", JsonString("Requests")>>,
                        <<"seededRows", ToString(lastRow - 1)>> >>),
          sha256Hex_("demo"))

\* ensureSheetWithHeaders_ and the seeding (src/Code.gs 699-752).
InvokeDemo(actor, now) ==
    /\ NoneDone
    /\ IdleProcs # {}
    /\ Room >= 1
    /\ headers' = RequestsHeaders
    /\ Commit(demoSeed(Store, RequestsHeaders, now, cfg.tracked,
                       REAPPROVAL_EXEMPT_HEADERS))
    /\ proc' = [Forgotten EXCEPT ![FirstIdle] =
                  [IdleProc EXCEPT !.pc = "demoRead", !.op = "demo",
                                   !.actor = actor, !.now = now,
                                   !.audit0 = Len(audit), !.req0 = requests]]
    /\ UNCHANGED <<cfg, lock, installed>>

\* appendAuditEvent_ up to the read of the last ChainHash (572-604).
DemoRead(p) ==
    /\ NoneDone
    /\ proc[p].pc = "demoRead"
    /\ LET s1 == ensureAuditHeader(Store)
       IN /\ Commit(s1)
          /\ proc' = [proc EXCEPT ![p].pc = "demoAppend",
                                  ![p].prev = readPrevChainHash(s1)]
    /\ UNCHANGED <<headers, cfg, lock, installed>>

\* appendAuditEvent_ from the chain hash to audit.appendRow (605-622),
\* then the return.
DemoAppend(p) ==
    /\ NoneDone
    /\ proc[p].pc = "demoAppend"
    /\ Commit(appendAuditRow(Store,
                  demoEvent(proc[p].actor, proc[p].now, LastRow), proc[p].prev))
    /\ proc' = [proc EXCEPT ![p] = IdleProc]
    /\ UNCHANGED <<headers, cfg, lock, installed>>

(***************************************************************************)
(* computeMeaningfulHash_ on its own: sheets of HashCols columns in any    *)
(* order, one of which may have an empty header cell, two rows of any      *)
(* values.  An execution computes the digest of a row and keeps it (as the *)
(* scan does at src/Code.gs 322); a user moves a column, or retypes a cell. *)
(***************************************************************************)
HashCols == 3
HashInit ==
    /\ headers \in { h \in [1..HashCols -> {"Title", "Requester", "Status", ""}] :
                       \A i, j \in 1..HashCols : i # j => h[i] # h[j] }
    /\ cfg \in CfgChoices
    /\ requests \in [1..NRows -> [1..HashCols -> {"a", "b"}]]
    /\ audit = <<>>
    /\ auditHdr = FALSE
    /\ protections = <<>>
    /\ uuid = 0
    /\ lock = NoProc
    /\ installed = FALSE
    /\ proc = [p \in Procs |-> IdleProc]

\* const headers = getHeaders_(sheet);
\* const computed = computeMeaningfulHash_(headers, rowValues) of row r.
ComputeHash(p, r) ==
    /\ proc[p].pc = "idle" /\ proc[p].op = "none"
    /\ proc' = [proc EXCEPT ![p] =
                  [IdleProc EXCEPT !.op = "hash", !.rows = <<r>>,
                     !.values = headers,
                     !.prev = computeMeaningfulHash_(headers,
                                 requests[r - HEADER_ROW], cfg.tracked,
                                 REAPPROVAL_EXEMPT_HEADERS)]]
    /\ UNCHANGED <<headers, cfg, lock, installed>>
    /\ StoreUnchanged

SwapAt(seq, i) ==
    [k \in 1..Len(seq) |->
        IF k = i THEN seq[i + 1] ELSE IF k = i + 1 THEN seq[i] ELSE seq[k]]

\* A user moves column i + 1 in front of column i, header and cells.
MoveColumn(i) ==
    /\ i \in 1..(Len(headers) - 1)
    /\ headers' = SwapAt(headers, i)
    /\ requests' = [r \in 1..Len(requests) |-> SwapAt(requests[r], i)]
    /\ UNCHANGED <<cfg, audit, auditHdr, protections, uuid, lock, installed,
                   proc>>

HashNext ==
    \/ \E p \in Procs, r \in (HEADER_ROW + 1)..(HEADER_ROW + NRows) :
          ComputeHash(p, r)
    \/ \E i \in 1..(HashCols - 1) : MoveColumn(i)
HashSpec == HashInit /\ [][HashNext]_vars

(***************************************************************************)
(* Specifications.                                                         *)
(***************************************************************************)
Calls ==
    \/ \E single \in BOOLEAN, status \in DecideStatuses, rg \in Ranges,
          actor \in Actors, now \in Times, notes \in Notes, promptOk \in BOOLEAN :
          InvokeDecide(single, status, rg, actor, now, notes, promptOk)
    \/ \E rg \in Ranges, cols \in EditColumns, v \in Titles,
          actor \in Actors, now \in Times, simpleFirst \in BOOLEAN :
          UserEdit(rg, cols, v, actor, now, simpleFirst)
    \/ \E actor \in Actors, now \in Times : InvokeScan(actor, now)
    \/ \E r \in 1..NRows, v \in Titles : ExternalWrite(r, v)

Triggers == installReapprovalTrigger \/ removeInstalledApprovalTriggers

Acquires ==
    \E p \in Procs : AcquireDecide(p) \/ AcquireOnEdit(p) \/ AcquireScan(p)

Steps ==
    \E p \in Procs :
        \/ DecideStep(p) \/ OnEditStep(p) \/ ScanStep(p)
        \/ Release(p) \/ Return(p)

Demo ==
    \/ \E actor \in Actors, now \in Times : InvokeDemo(actor, now)
    \/ \E p \in Procs : DemoRead(p) \/ DemoAppend(p)

\* Every entry point, in any interleaving.
Next == Calls \/ Triggers \/ Acquires \/ Steps \/ Demo
Spec == Init /\ [][Next]_vars

\* The installable trigger next to the simple one: calls are made when no
\* execution is in flight, and an edit starts onEdit and onEditInstallable
\* together, the second blocked on the lock until the first has released it.
RaceNext ==
    \/ Quiet /\ (Calls \/ Triggers)
    \/ \E p \in Procs : AcquireOnEdit(p)
    \/ Steps
RaceSpec == Init /\ [][RaceNext]_vars

\* createDemoSetup in any interleaving with decide, onEdit and scan, which
\* start when the lock is free.
NoLockedCall ==
    \A p \in Procs : proc[p].pc \in {"idle", "demoRead", "demoAppend"}
DemoNext == (NoLockedCall /\ Calls) \/ Steps \/ Demo
DemoSpec == Init /\ [][DemoNext]_vars

\* decide, onEdit (simple trigger) and scan one after the other: a call is
\* made only when no execution is in flight.
SeqNext == (Quiet /\ Calls) \/ Steps
SeqSpec == Init /\ [][SeqNext]_vars

\* The same, where the audit append of a row may throw; what the sheets
\* hold after the failed operation is where these behaviours end.
AppendFailures ==
    \E p \in Procs :
        DecideAppendFails(p) \/ OnEditAppendFails(p) \/ ScanAppendFails(p)
NoFailure == \A p \in Procs : proc[p].last # "failed"
FailNext == (Quiet /\ NoFailure /\ Calls) \/ Steps \/ AppendFailures
FailSpec == Init /\ [][FailNext]_vars

\* The same as SeqSpec, where the creation of a row guard may be refused.
GuardNext ==
    \/ Quiet /\ NoFailure /\ Calls
    \/ Steps
    \/ \E p \in Procs : DecideGuardDenied(p)
GuardSpec == Init /\ [][GuardNext]_vars

\* Two callers.  A call is made when no execution is in flight, or by a
\* second user while the first execution on an empty ledger has just taken
\* the lock: the second call waits, and either gets the lock or gives up
\* after the bounded wait.
SecondActor == "bob"
SecondTime == "T2"
SecondNotes == "late"

JustEntered ==
    \E p \in Procs :
        /\ proc[p].pc = "run" /\ proc[p].idx = 1 /\ proc[p].rows # <<>>
        /\ \A q \in Procs \ {p} : proc[q].pc = "idle"
        /\ audit = <<>>

SecondCalls ==
    \/ \E single \in BOOLEAN, status \in DecideStatuses, rg \in Ranges :
          InvokeDecide(single, status, rg, SecondActor, SecondTime,
                       SecondNotes, TRUE)
    \/ \E rg \in Ranges, cols \in EditColumns, v \in Titles :
          UserEdit(rg, cols, v, SecondActor, SecondTime, TRUE)
    \/ InvokeScan(SecondActor, SecondTime)

WaitNext ==
    \/ Quiet /\ Calls
    \/ JustEntered /\ SecondCalls
    \/ Acquires
    \/ Steps
    \/ \E p \in Procs : LockTimeout(p)
WaitSpec == Init /\ [][WaitNext]_vars

\* decide, one call at a time, on a sheet that lacks a required header.
\* Calls on a fresh ledger, with or without the ApprovedHash column, a
\* second call arriving while the first, made on the sheet as found, holds
\* the lock; an audit append or the creation of a row guard may throw, and
\* no call follows a failed one.
LockInit ==
    /\ \E kinds \in [1..NRows -> RowKinds], full \in BOOLEAN :
          LET k == IndexOf(RequestsHeaders, APPROVED_HASH_HEADER)
          IN IF full
             THEN /\ headers = RequestsHeaders
                  /\ requests = [i \in 1..NRows |->
                                    InitRow(i + HEADER_ROW, kinds[i])]
             ELSE /\ headers = DropAt(RequestsHeaders, k)
                  /\ requests = [i \in 1..NRows |->
                                    DropAt(InitRow(i + HEADER_ROW, kinds[i]), k)]
    /\ cfg \in CfgChoices
    /\ audit = <<>>
    /\ auditHdr = FALSE
    /\ protections = <<>>
    /\ uuid = 0
    /\ lock = NoProc
    /\ installed = FALSE
    /\ proc = [p \in Procs |-> IdleProc]

AsFound ==
    LET k == IndexOf(RequestsHeaders, APPROVED_HASH_HEADER)
    IN \E kinds \in [1..NRows -> RowKinds] :
          \/ requests = [i \in 1..NRows |-> InitRow(i + HEADER_ROW, kinds[i])]
          \/ requests = [i \in 1..NRows |->
                            DropAt(InitRow(i + HEADER_ROW, kinds[i]), k)]

\* The second call, on one data row; a scan is not started behind an
\* approval, whose events would leave the bounded Audit sheet no room for
\* the scan's.
LateCalls ==
    \/ \E status \in DecideStatuses, r \in 1..NRows :
          InvokeDecide(TRUE, status, <<HEADER_ROW + r, 1>>, SecondActor,
                       SecondTime, SecondNotes, TRUE)
    \/ \E cols \in EditColumns, v \in Titles, r \in 1..NRows :
          UserEdit(<<HEADER_ROW + r, 1>>, cols, v, SecondActor,
                   SecondTime, TRUE)
    \/ /\ \A p \in Procs : proc[p].status # STATUS_APPROVED
       /\ InvokeScan(SecondActor, SecondTime)

LockNext ==
    \/ Quiet /\ NoFailure /\ audit = <<>> /\ Calls
    \/ JustEntered /\ AsFound /\ LateCalls
    \/ Acquires
    \/ Steps
    \/ \E p \in Procs : LockTimeout(p)
    \/ AppendFailures
    \/ \E p \in Procs : DecideGuardDenied(p)

\* An execution runs to its end whatever the other executions do: the body
\* of the try block goes on row by row (or throws), the finally block
\* follows, and the call returns.  Stepping(p) is the enabling condition of
\* RowStep(p), so RowsFair(p) is strong fairness of RowStep(p).
Stepping(p) ==
    /\ NoneDone
    /\ proc[p].pc = "run" /\ proc[p].idx <= Len(proc[p].rows)

RowStep(p) ==
    \/ DecideStep(p) \/ OnEditStep(p) \/ ScanStep(p)
    \/ DecideAppendFails(p) \/ OnEditAppendFails(p) \/ ScanAppendFails(p)
    \/ DecideGuardDenied(p)

RowsFair(p) == <>[] ~Stepping(p) \/ []<> <<RowStep(p)>>_vars

LockSpec ==
    /\ LockInit /\ [][LockNext]_vars
    /\ \A p \in Procs : RowsFair(p) /\ SF_vars(Release(p)) /\ SF_vars(Return(p))

\* An empty spreadsheet: createDemoSetup makes and seeds the Requests
\* sheet; the other entry points are called once it has rows.  One call at
\* a time.
SeedInit ==
    /\ headers = RequestsHeaders
    /\ cfg \in CfgChoices
    /\ requests = <<>>
    /\ audit = <<>>
    /\ auditHdr = FALSE
    /\ protections = <<>>
    /\ uuid = 0
    /\ lock = NoProc
    /\ installed = FALSE
    /\ proc = [p \in Procs |-> IdleProc]

SeedNext ==
    \/ Quiet /\ requests # <<>> /\ Calls
    \/ Quiet /\ \E actor \in Actors, now \in Times : InvokeDemo(actor, now)
    \/ \E p \in Procs : DemoRead(p) \/ DemoAppend(p)
    \/ Steps
SeedSpec == SeedInit /\ [][SeedNext]_vars

\* One call at a time, the user also clearing RequestId cells: an edit of
\* an exempt column, which onEdit takes the lock for and ignores.
ClearsRequestId ==
    /\ uuid < MaxIds
    /\ \E rg \in Ranges, actor \in Actors, now \in Times :
          UserEdit(rg, <<1, 1>>, "", actor, now, TRUE)
FrameNext ==
    \/ Quiet /\ Calls
    \/ Quiet /\ ClearsRequestId
    \/ Steps
FrameSpec == Init /\ [][FrameNext]_vars

HeaderNext ==
    \/ /\ Quiet
       /\ \E single \in BOOLEAN, status \in DecideStatuses, rg \in Ranges,
             actor \in Actors, now \in Times, notes \in Notes,
             promptOk \in BOOLEAN :
             InvokeDecide(single, status, rg, actor, now, notes, promptOk)
    \/ \E p \in Procs : DecideStep(p) \/ Release(p)
HeaderSpec == HeaderInit /\ [][HeaderNext]_vars

(***************************************************************************)
(* The audit hash chain.                                                   *)
(***************************************************************************)
\* The hash of event i as a reader of ledger L recomputes it: ChainHash_0 is
\* "", ChainHash_k = H(ChainHash_(k-1) + "\n" + SnapshotHash_k).
RECURSIVE RecomputedChainHash(_, _)
RecomputedChainHash(L, k) ==
    IF k = 0 THEN ""
    ELSE sha256Hex_(RecomputedChainHash(L, k - 1) \o "\n" \o L[k].SnapshotHash)

\* Verification of event k of ledger L fails.
VerificationFails(L, k) == RecomputedChainHash(L, k) # L[k].ChainHash

C2_NoSharedPrevChainHash ==
    /\ \A i, j \in 1..Len(audit) :
          i # j => audit[i].PrevChainHash # audit[j].PrevChainHash
    /\ \A i \in 1..Len(audit) :
          audit[i].PrevChainHash = (IF i = 1 THEN "" ELSE audit[i - 1].ChainHash)

\* C3: every entry point that changes Requests rows and appends to the
\* ledger holds the document lock from its first read to its last write: an
\* execution between its call and its return is the holder of the lock, so
\* at most one is inside its read-mutate-append section.
C3_LockHeldInside ==
    /\ \A p \in Procs :
          proc[p].pc \in {"run", "demoRead", "demoAppend"} => lock = p
    /\ Cardinality({ p \in Procs :
                       proc[p].pc \in {"run", "demoRead", "demoAppend"} }) <= 1

\* C4: in a ledger the system produced, replacing the stored SnapshotHash of
\* event i by a different value, no ChainHash being recomputed, makes the
\* verification fail for every event j >= i and for no event before i.
TamperValues == {"tampered"} \cup { audit[k].SnapshotHash : k \in 1..Len(audit) }

Tampered(L, i, v) == [L EXCEPT ![i].SnapshotHash = v]

C4_TamperBreaksSuffix ==
    \A i \in 1..Len(audit), v \in TamperValues :
        v # audit[i].SnapshotHash =>
            \A j \in 1..Len(audit) :
                VerificationFails(Tampered(audit, i, v), j) <=> j >= i

\* A ledger of two events with different snapshot hashes, the first of
\* which can be replaced by the second's.
C4_Witness ==
    /\ Len(audit) = 2
    /\ audit[1].SnapshotHash # audit[2].SnapshotHash
    /\ VerificationFails(Tampered(audit, 1, audit[2].SnapshotHash), 2)
    /\ ~VerificationFails(Tampered(audit, 2, "tampered"), 1)

(***************************************************************************)
(* Decisions, scans and the reapproval trigger.                            *)
(***************************************************************************)
Cell(sheet, r, h) == sheet[r - HEADER_ROW][IndexOf(headers, h)]

DataRowsOfSeq(rows) == { rows[k] : k \in 1..Len(rows) } \ (0..HEADER_ROW)

\* The events execution p has appended for row r.
EventsFor(p, r) ==
    { i \in (proc[p].audit0 + 1)..Len(audit) : audit[i].RowNumber = r }

DecideOver(p) == Finished(p) /\ proc[p].op = "decide" /\ proc[p].err = ""
ScanOver(p) == Finished(p) /\ proc[p].op = "scan" /\ proc[p].err = ""

\* C5: after decide(APPROVED) the stored ApprovedHash of each decided row is
\* the digest of the row as the operation leaves it, the value
\* scanForReapprovalNeeded computes for it, so that a scan right after the
\* approval finds no mismatch.
C5_ApprovedHashIsScanDigest ==
    \A p \in Procs :
        DecideOver(p) /\ proc[p].status = STATUS_APPROVED =>
            \A r \in DataRowsOfSeq(proc[p].rows) :
                Cell(requests, r, APPROVED_HASH_HEADER) =
                    computeMeaningfulHash_(headers, RowValues(Store, r),
                                           cfg.tracked, REAPPROVAL_EXEMPT_HEADERS)

\* C6: under the shipped configuration a scan run right after a scan, with
\* no call or write between, reopens no row, sets no ApprovedHash and
\* appends no event.
C6_SecondScanChangesNothing ==
    \A p \in Procs :
        ScanOver(p) /\ proc[p].again /\ cfg = ShippedCfg =>
            /\ proc[p].setCount = 0
            /\ proc[p].reapprovalCount = 0
            /\ Len(audit) = proc[p].audit0
            /\ requests = proc[p].req0

\* C7: after decide(rows, APPROVED or REJECTED, actor, notes) every targeted
\* data row has Status = the target, Approver = actor, DecisionAt = the
\* decision time, DecisionNotes = notes and a non-empty RequestId, and
\* exactly one event was appended for it, with Action = the target and the
\* row's RequestId.
C7_DecidePostconditions ==
    \A p \in Procs :
        DecideOver(p) /\ proc[p].status \in {STATUS_APPROVED, STATUS_REJECTED} =>
            /\ \A r \in DataRowsOfSeq(proc[p].rows) :
                  /\ Cell(requests, r, "Status") = proc[p].status
                  /\ Cell(requests, r, "Approver") = proc[p].actor
                  /\ Cell(requests, r, "DecisionAt") = proc[p].now
                  /\ Cell(requests, r, "DecisionNotes") = proc[p].notes
                  /\ Cell(requests, r, REQUEST_ID_HEADER) # ""
                  /\ Cardinality(EventsFor(p, r)) = 1
                  /\ \A i \in EventsFor(p, r) :
                        /\ audit[i].Action = proc[p].status
                        /\ audit[i].RequestId = Cell(requests, r, REQUEST_ID_HEADER)
            /\ Len(audit) - proc[p].audit0 =
                  Cardinality(DataRowsOfSeq(proc[p].rows))

\* A batch approval of two rows is over, one of which had no RequestId.
C7_Witness ==
    \E p \in Procs :
        /\ DecideOver(p) /\ proc[p].status = STATUS_APPROVED
        /\ Cardinality(DataRowsOfSeq(proc[p].rows)) = 2
        /\ \E r \in DataRowsOfSeq(proc[p].rows) :
              Cell(proc[p].req0, r, REQUEST_ID_HEADER) = ""

\* An onEdit handler that has returned, with or without the lock.
OnEditOver(p) ==
    proc[p].op = "onEdit" /\ (proc[p].pc = "done" \/ Finished(p))

\* The headers of the columns the edit covers.
EditedHeadersOfEdit(p) ==
    IF proc[p].pc = "done"
    THEN editedHeadersOf(headers, proc[p].startCol, proc[p].numCols)
    ELSE proc[p].edited

\* editedHeaders meets the meaningful set: a header that is not exempt and,
\* the tracked list being non-empty, is tracked.
MeaningfulHeaderEdited(p) ==
    \E k \in 1..Len(EditedHeadersOfEdit(p)) :
        LET h == EditedHeadersOfEdit(p)[k]
        IN /\ ~Contains(REAPPROVAL_EXEMPT_HEADERS, h)
           /\ (cfg.tracked = <<>> \/ Contains(cfg.tracked, h))

ReapprovalEventsFor(p, r) ==
    { i \in EventsFor(p, r) : audit[i].Action = "REAPPROVAL_REQUIRED" }

\* C8: onEdit reverts a data row of the edited range to PENDING if and only
\* if a meaningful header was edited and the row's Status is in
\* REAPPROVAL_FROM_STATUSES; otherwise the row stays as the edit left it and
\* no event is appended for it.
C8_RevertsIffMeaningfulAndFromStatus ==
    \A p \in Procs :
        OnEditOver(p) /\ ~proc[p].second =>
            \A r \in DataRowsOf(proc[p].startRow, proc[p].numRows) :
                IF /\ MeaningfulHeaderEdited(p)
                   /\ Contains(cfg.fromStatuses, Cell(proc[p].sheetAtEdit, r, "Status"))
                THEN /\ Cell(requests, r, "Status") = STATUS_PENDING
                     /\ ReapprovalEventsFor(p, r) # {}
                ELSE /\ requests[r - HEADER_ROW] = proc[p].sheetAtEdit[r - HEADER_ROW]
                     /\ EventsFor(p, r) = {}

\* The handler has run for an edit of Approver alone over an APPROVED row.
C8_Witness ==
    \E p \in Procs :
        /\ OnEditOver(p) /\ proc[p].pc # "done"
        /\ proc[p].edited = <<"Approver">>
        /\ \E r \in DataRowsOf(proc[p].startRow, proc[p].numRows) :
              Cell(proc[p].sheetAtEdit, r, "Status") = STATUS_APPROVED

\* The snapshot onEdit logs for row r: the row as reverted, and _reapproval
\* with the edited headers and the prior status.
ReapprovalSnapshot(p, r, priorStatus) ==
    JsonObject(ObjSet(ObjAsJsonPairs(rowToObject_(headers, requests[r - HEADER_ROW])),
        "_reapproval",
        JsonObject(<< <<"editedHeaders", JsonArray(proc[p].edited)>>,
                      <<"priorStatus", JsonString(priorStatus)>> >>)))

ReapprovalEventsSinceEdit(p, r) ==
    { i \in (proc[p].auditAtEdit + 1)..Len(audit) :
        audit[i].RowNumber = r /\ audit[i].Action = "REAPPROVAL_REQUIRED" }

\* C10: when onEdit and onEditInstallable both run for one edit, in either
\* order, PENDING not being in REAPPROVAL_FROM_STATUSES, the handler that
\* runs second changes nothing, and each row that was to be reverted is
\* PENDING with exactly one REAPPROVAL_REQUIRED event.
C10_SecondHandlerChangesNothing ==
    \A p \in Procs :
        Finished(p) /\ proc[p].op = "onEdit" /\ proc[p].second =>
            /\ requests = proc[p].req0
            /\ Len(audit) = proc[p].audit0
            /\ \A r \in DataRowsOf(proc[p].startRow, proc[p].numRows) :
                  IF /\ MeaningfulHeaderEdited(p)
                     /\ Contains(cfg.fromStatuses,
                                  Cell(proc[p].sheetAtEdit, r, "Status"))
                  THEN /\ Cell(requests, r, "Status") = STATUS_PENDING
                       /\ Cardinality(ReapprovalEventsSinceEdit(p, r)) = 1
                  ELSE ReapprovalEventsSinceEdit(p, r) = {}

\* onEdit ran after onEditInstallable had reverted a row of the edit.
C10_Witness ==
    \E p \in Procs :
        /\ Finished(p) /\ proc[p].op = "onEdit" /\ proc[p].second
        /\ proc[p].handler = "onEdit"
        /\ \E r \in DataRowsOf(proc[p].startRow, proc[p].numRows) :
              ReapprovalEventsSinceEdit(p, r) # {}

(***************************************************************************)
(* The drift scan.                                                         *)
(***************************************************************************)
\* The row r as scanForReapprovalNeeded read it before its loop.
ScannedRow(p, r) == proc[p].values[r - HEADER_ROW]

ColumnOf(h) == IndexOf(headers, h)

\* C11: the scan of an APPROVED row whose ApprovedHash is empty stores the
\* digest it computed as ApprovedHash, leaves Status, Approver, DecisionAt
\* and DecisionNotes as they were, and appends exactly one
\* APPROVAL_HASH_SET event for the row.
C11_ScanSetsMissingHash ==
    \A p \in Procs :
        ScanOver(p) =>
            \A r \in DataRowsOfSeq(proc[p].rows) :
                LET old == ScannedRow(p, r)
                IN /\ old[ColumnOf("Status")] = STATUS_APPROVED
                   /\ old[ColumnOf(APPROVED_HASH_HEADER)] = ""
                   => /\ Cell(requests, r, APPROVED_HASH_HEADER) =
                            sha256Hex_(computeMeaningfulSnapshotJson_(headers, old,
                                cfg.tracked, REAPPROVAL_EXEMPT_HEADERS))
                      /\ Cell(requests, r, APPROVED_HASH_HEADER) # ""
                      /\ \A h \in {"Status", "Approver", "DecisionAt", "DecisionNotes"} :
                            Cell(requests, r, h) = old[ColumnOf(h)]
                      /\ Cardinality(EventsFor(p, r)) = 1
                      /\ \A i \in EventsFor(p, r) :
                            audit[i].Action = "APPROVAL_HASH_SET"

\* A scan that found two APPROVED rows without ApprovedHash is over.
C11_Witness ==
    \E p \in Procs : ScanOver(p) /\ proc[p].setCount = 2

\* The metadata scanForReapprovalNeeded logs with a REAPPROVAL_REQUIRED
\* event of row r: the row as reverted, the reason and the two hashes.
MismatchSnapshot(r, stored, computed) ==
    JsonObject(ObjSet(ObjAsJsonPairs(rowToObject_(headers, requests[r - HEADER_ROW])),
        "_reapproval",
        JsonObject(<< <<"reason", JsonString("hash_mismatch")>>,
                      <<"storedMeaningfulHash", JsonString(stored)>>,
                      <<"computedMeaningfulHash", JsonString(computed)>> >>)))

StatusOf(sheet, i) == sheet[i][IndexOf(headers, "Status")]

\* C13: from a sheet whose rows all have Status PENDING, APPROVED or
\* REJECTED, every state reached by decide, onEdit and scan has every row's
\* Status in that set, also in the middle of an operation.
C13_StatusInDomain ==
    \A i \in 1..Len(requests) : StatusOf(requests, i) \in DecideStatuses

\* A decision and a later automatic revert have both written Status.
C13_Witness ==
    /\ Len(audit) = 2
    /\ audit[1].Action \in {STATUS_APPROVED, STATUS_REJECTED}
    /\ audit[2].Action = "REAPPROVAL_REQUIRED"
    /\ \E i \in 1..Len(requests) : StatusOf(requests, i) = STATUS_REJECTED

RequestIdOf(sheet, i) == sheet[i][IndexOf(headers, REQUEST_ID_HEADER)]

\* C14: no step changes a RequestId that is not empty, and a step draws
\* exactly one id from Utilities.getUuid() for each row whose RequestId it
\* fills: none for a row that has one.
C14_RequestIdStable ==
    [][ /\ \A i \in 1..Len(requests) :
              RequestIdOf(requests, i) # ""
                 => RequestIdOf(requests', i) = RequestIdOf(requests, i)
        /\ uuid' - uuid =
              Cardinality({ i \in 1..Len(requests) :
                              /\ RequestIdOf(requests, i) = ""
                              /\ RequestIdOf(requests', i) # "" }) ]_vars

\* A row was given its id by a decision, and a later automatic revert of
\* the same row recorded that id again.
C14_Witness ==
    /\ uuid = 1
    /\ Len(audit) = 2
    /\ audit[1].RequestId = "REQ-u1"
    /\ audit[2].RequestId = "REQ-u1"
    /\ audit[2].Action = "REAPPROVAL_REQUIRED"
    /\ \E i \in 1..Len(requests) : RequestIdOf(requests, i) = "REQ-u1"

\* C15: after decide(rows, PENDING) every targeted data row has Status
\* PENDING and empty Approver, DecisionAt and DecisionNotes, whatever they
\* held before, and no cell of the row holds the resetting user or the time
\* of the reset.
C15_ResetLeavesNoAttribution ==
    \A p \in Procs :
        DecideOver(p) /\ proc[p].status = STATUS_PENDING =>
            \A r \in DataRowsOfSeq(proc[p].rows) :
                /\ Cell(requests, r, "Status") = STATUS_PENDING
                /\ Cell(requests, r, "Approver") = ""
                /\ Cell(requests, r, "DecisionAt") = ""
                /\ Cell(requests, r, "DecisionNotes") = ""
                /\ \A c \in 1..Len(headers) :
                      requests[r - HEADER_ROW][c] \notin
                          {proc[p].actor, proc[p].now}

\* A reset of a row that was APPROVED with all three decision cells filled.
C15_Witness ==
    \E p \in Procs :
        /\ DecideOver(p) /\ proc[p].status = STATUS_PENDING
        /\ \E r \in DataRowsOfSeq(proc[p].rows) :
              /\ Cell(proc[p].req0, r, "Status") = STATUS_APPROVED
              /\ Cell(proc[p].req0, r, "Approver") # ""
              /\ Cell(proc[p].req0, r, "DecisionAt") # ""
              /\ Cell(proc[p].req0, r, "DecisionNotes") # ""

\* A row that the execution holding the lock has written in this step and
\* left PENDING.  (Edits and external writes happen with the lock free.)
WrittenPending(i) ==
    /\ lock # NoProc
    /\ requests'[i] # requests[i]
    /\ StatusOf(requests', i) = STATUS_PENDING

\* The messages onEdit (src/Code.gs 209) and scan (347) leave in
\* DecisionNotes, for an edit of one column.
AutoNotes ==
    { "Auto: re-approval required (was " \o s \o "; edited: " \o headers[c] \o ")" :
        s \in DecideStatuses, c \in 1..Len(headers) }
    \cup { "Auto: re-approval required (hash mismatch; run scan)" }

C17_AuditAppendOnly ==
    [][ /\ Len(audit') >= Len(audit)
        /\ SubSeq(audit', 1, Len(audit)) = audit ]_vars

\* Two events were appended one after the other, by two operations.
C17_Witness ==
    /\ Len(audit) = 2
    /\ audit[1].Action # audit[2].Action
    /\ audit[2].PrevChainHash = audit[1].ChainHash

(***************************************************************************)
(* State changes and their audit events.                                   *)
(***************************************************************************)
\* The step in which the audit append of execution p throws, and the row
\* whose event it was.
AppendThrew(p) == proc[p].err = "" /\ proc'[p].err = AuditAppendFailed
FailedRow(p) == proc[p].rows[proc[p].idx]

DecisionCellsOf(sheet, r) ==
    << Cell(sheet, r, "Status"), Cell(sheet, r, "Approver"),
       Cell(sheet, r, "DecisionAt"), Cell(sheet, r, "DecisionNotes") >>

\* The row as the same pass leaves it when the append succeeds.
CompletedRow(p) ==
    LET me == proc[p]
        r == FailedRow(p)
        st == IF me.op = "decide"
              THEN decideRow(Store, headers, cfg.tracked,
                             REAPPROVAL_EXEMPT_HEADERS, r, me.status, me.actor,
                             me.now, me.notes, TRUE, TRUE).st
              ELSE IF me.op = "onEdit"
              THEN onEditRow(Store, headers, cfg.fromStatuses, r, me.edited,
                             me.actor, me.now, TRUE).st
              ELSE scanRow(Store, headers, cfg.tracked, REAPPROVAL_EXEMPT_HEADERS,
                           r, me.values[r - HEADER_ROW], me.actor, me.now, TRUE).st
    IN RowValues(st, r)

\* C19: when the audit append of a row throws, the row's Status, Approver,
\* DecisionAt and DecisionNotes are as before, or the row is marked: it is
\* not cell for cell the row a successful pass leaves.
C19_FailedAppendNotCommitted ==
    [][ \A p \in Procs :
           AppendThrew(p) =>
              \/ DecisionCellsOf(requests', FailedRow(p)) =
                    DecisionCellsOf(requests, FailedRow(p))
              \/ requests'[FailedRow(p) - HEADER_ROW] # CompletedRow(p) ]_vars

\* The events recorded for request id that bear on Status, and the status
\* the last of them implies.
StatusEventsOf(id) ==
    { k \in 1..Len(audit) :
        audit[k].RequestId = id /\ audit[k].Action # "APPROVAL_HASH_SET" }

ImpliedStatus(action) ==
    IF action = "REAPPROVAL_REQUIRED" THEN STATUS_PENDING ELSE action

LastOf(S) == CHOOSE k \in S : \A j \in S : j <= k

\* C18: when an operation has run its loop, every row whose Status it
\* changed has exactly one event appended by it; and between operations
\* the Status of every row with an id that has events is the status implied
\* by the last such event.
C18_StatusChangesAreAudited ==
    /\ \A p \in Procs :
          Finished(p) =>
             \A r \in (HEADER_ROW + 1)..LastRow :
                Cell(requests, r, "Status") # Cell(proc[p].req0, r, "Status")
                   => Cardinality(EventsFor(p, r)) = 1
    /\ Quiet =>
          \A i \in 1..Len(requests) :
             RequestIdOf(requests, i) # ""
             /\ StatusEventsOf(RequestIdOf(requests, i)) # {}
                => StatusOf(requests, i) =
                      ImpliedStatus(
                         audit[LastOf(StatusEventsOf(RequestIdOf(requests, i)))].Action)

\* C20: for each row the order is row mutation, audit append, guard side
\* effect: in the step where the append of a row throws, the row has been
\* written as the pass writes it and the guards are still as they were.
C20_MutationAppendGuardOrder ==
    [][ \A p \in Procs :
           AppendThrew(p) =>
              /\ requests'[FailedRow(p) - HEADER_ROW] = CompletedRow(p)
              /\ protections' = protections ]_vars

(***************************************************************************)
(* Row guards.                                                             *)
(***************************************************************************)
\* The rows of p's batch from row r on, in the order of the batch.
FromRowOn(p, r) ==
    { proc[p].rows[k] : k \in IndexOf(proc[p].rows, r)..Len(proc[p].rows) }

\* C21: when decide(APPROVED) is refused the guard of one row of its batch,
\* that row and every later row of the batch end APPROVED, each with its
\* event appended, and the call reports no error.
C21_GuardDenialIsSwallowed ==
    \A p \in Procs :
        /\ Finished(p) /\ proc[p].op = "decide"
        /\ proc[p].status = STATUS_APPROVED /\ proc[p].denied # 0
        => /\ \A r \in FromRowOn(p, proc[p].denied) :
                 /\ Cell(requests, r, "Status") = STATUS_APPROVED
                 /\ Cardinality(EventsFor(p, r)) = 1
           /\ proc[p].err = ""

SystemGuardsOf(r) ==
    { k \in 1..Len(protections) : IsSystemGuard(protections[k], r) }

\* C22: with row locking on and guard operations succeeding, every row has
\* at most one system guard; a row whose last recorded transition is
\* APPROVED has exactly one, a row whose last recorded transition is
\* REJECTED, PENDING or REAPPROVAL_REQUIRED has none, as has a row the
\* script never decided; and a guarded row has Status APPROVED.
C22_GuardIffLastDecisionApproved ==
    \A i \in 1..Len(requests) :
        LET r == i + HEADER_ROW
            id == RequestIdOf(requests, i)
            decided == id # "" /\ StatusEventsOf(id) # {}
        IN /\ Cardinality(SystemGuardsOf(r)) <= 1
           /\ decided =>
                 (Cardinality(SystemGuardsOf(r)) = 1
                    <=> audit[LastOf(StatusEventsOf(id))].Action = STATUS_APPROVED)
           /\ ~decided => SystemGuardsOf(r) = {}
           /\ SystemGuardsOf(r) # {} => StatusOf(requests, i) = STATUS_APPROVED

\* A row approved twice through the menu carries one guard.
C22_Witness ==
    \E i \in 1..Len(requests) :
        /\ Len(audit) = 2
        /\ audit[1].Action = STATUS_APPROVED /\ audit[2].Action = STATUS_APPROVED
        /\ audit[1].RowNumber = i + HEADER_ROW
        /\ audit[2].RowNumber = i + HEADER_ROW
        /\ Cardinality(SystemGuardsOf(i + HEADER_ROW)) = 1

(***************************************************************************)
(* Errors of a call.                                                       *)
(***************************************************************************)
\* C23: on a sheet that lacks one of RequestId, Status, Approver,
\* DecisionAt, DecisionNotes, a decide call that comes to its rows ends in
\* an error, with no cell of Requests written and no event appended.
C23_MissingHeaderAbortsDecide ==
    \A p \in Procs :
        Finished(p) /\ proc[p].op = "decide" /\ proc[p].rows # <<>> =>
            /\ proc[p].err # ""
            /\ requests = proc[p].req0
            /\ Len(audit) = proc[p].audit0

\* C24: a decide call whose selection holds no data row ends in an error
\* and leaves every row of Requests and the Audit ledger as they were.
C24_NoDataRowAbortsDecide ==
    \A p \in Procs :
        /\ Finished(p) /\ proc[p].op = "decide"
        /\ proc[p].startRow # 0
        /\ DataRowsOf(proc[p].startRow, proc[p].numRows) = {}
        => /\ proc[p].err # ""
           /\ requests = proc[p].req0
           /\ Len(audit) = proc[p].audit0

\* The header row alone was selected for an approval of several rows, on a
\* ledger that already holds an event.
C24_Witness ==
    \E p \in Procs :
        /\ Finished(p) /\ proc[p].op = "decide"
        /\ ~proc[p].single /\ proc[p].startRow = HEADER_ROW /\ proc[p].numRows = 1
        /\ proc[p].status = STATUS_APPROVED
        /\ proc[p].err # ""
        /\ Len(audit) = 1

\* The steps of a call that ends in a lock timeout: it starts and is
\* blocked, and it gives up.
StartsBlocked(p) == proc[p].pc = "idle" /\ proc'[p].pc = "wait"
GivesUp(p) == proc[p].pc = "wait" /\ proc'[p].pc = "done"

\* C25: a call of decide, onEdit or scan whose wait for the lock times out
\* ends in an error, and neither of its steps writes a cell of Requests, a
\* row guard or a row of Audit (the step that starts onEdit is the user's
\* edit, which writes the edited cells and nothing else).
C25_LockTimeoutWritesNothing ==
    [][ \A p \in Procs :
           /\ GivesUp(p) =>
                 /\ proc'[p].err # ""
                 /\ UNCHANGED <<requests, protections, audit, auditHdr>>
           /\ StartsBlocked(p) =>
                 /\ UNCHANGED <<protections, audit, auditHdr>>
                 /\ proc'[p].op # "onEdit" => UNCHANGED requests ]_vars

\* A call has given up on the lock while the execution that holds it has
\* appended an event.
C25_Witness ==
    \E p \in Procs :
        /\ proc[p].pc = "done" /\ proc[p].err = LockTimeoutError
        /\ lock # NoProc /\ lock # p
        /\ Len(audit) > proc[lock].audit0

\* C26: the SnapshotHash of every event in the ledger is the sha256 digest
\* of the SnapshotJSON of the same event.
C26_SnapshotHashIsDigestOfJson ==
    \A k \in 1..Len(audit) :
        audit[k].SnapshotHash = sha256Hex_(audit[k].SnapshotJSON)

(***************************************************************************)
(* The meaningful digest.                                                  *)
(***************************************************************************)
\* The digest execution p computed for its row is the digest of that row
\* in the sheet as its columns stand now.
DigestStands(p) ==
    proc[p].prev =
        computeMeaningfulHash_(headers, requests[proc[p].rows[1] - HEADER_ROW],
                               cfg.tracked, REAPPROVAL_EXEMPT_HEADERS)

\* C27 as stated: with distinct headers, the digest of a row is the same
\* for every order of the columns.
C27_DigestIgnoresColumnOrder ==
    \A p \in Procs : proc[p].op = "hash" => DigestStands(p)

\* C27 amended: with distinct headers none of which is empty, the digest of
\* a row is the same for every order of the columns.
C27_DigestIgnoresOrderOfNamedColumns ==
    \A p \in Procs :
        proc[p].op = "hash" /\ (\A i \in 1..Len(headers) : headers[i] # "")
            => DigestStands(p)

\* A digest was computed with Title in the first column, under the shipped
\* configuration, and the named columns now stand in the opposite order.
C27_Witness ==
    \E p \in Procs :
        /\ proc[p].op = "hash"
        /\ cfg = ShippedCfg
        /\ proc[p].values = <<"Title", "Requester", "Status">>
        /\ headers = <<"Status", "Requester", "Title">>
        /\ requests[proc[p].rows[1] - HEADER_ROW] = <<"a", "b", "a">>
        /\ proc[p].prev = sha256Hex_("{\"Requester\":\"b\",\"Title\":\"a\"}")


\* The columns the claim selects: the tracked headers when there are any,
\* else all headers, without the exempt ones.
SelectedColumns ==
    { i \in 1..Len(headers) :
        /\ headers[i] \notin {"RequestId", "Status", "Approver", "DecisionAt",
                              "DecisionNotes"}
        /\ cfg.tracked # <<>> =>
             \E k \in 1..Len(cfg.tracked) : cfg.tracked[k] = headers[i] }

HashedRow(p) == requests[proc[p].rows[1] - HEADER_ROW]

\* Execution p computed its digest with the columns as they stand.
HashedHere(p) == proc[p].op = "hash" /\ proc[p].values = headers

\* C28: the digests of two rows are equal exactly when the rows agree on
\* every selected column, whatever the other columns hold.
C28_DigestOfSelectedFieldsOnly ==
    \A p, q \in Procs :
        HashedHere(p) /\ HashedHere(q) =>
            ((proc[p].prev = proc[q].prev) <=>
             \A i \in SelectedColumns : HashedRow(p)[i] = HashedRow(q)[i])

\* Two rows that differ in Status and in an untracked column and agree on
\* the tracked Title were hashed, to the same digest.
C28_Witness ==
    \E p, q \in Procs :
        /\ HashedHere(p) /\ HashedHere(q)
        /\ cfg = CustomCfg
        /\ headers = <<"Title", "Requester", "Status">>
        /\ HashedRow(p) = <<"a", "a", "a">>
        /\ HashedRow(q) = <<"a", "b", "b">>
        /\ proc[p].prev = proc[q].prev


(***************************************************************************)
(* Two operations on one row.                                              *)
(***************************************************************************)
\* The message onEdit leaves in DecisionNotes after an edit of Title.
EditNotes(prior) ==
    "Auto: re-approval required (was " \o prior \o "; edited: Title)"

\* The snapshot an event of the given action carries for a row left as
\* rowValues: the row, and for a reapproval after an edit of Title the
\* _reapproval member with the prior status.
SnapshotFor(action, rowValues, prior) ==
    LET obj == rowToObject_(headers, rowValues)
    IN IF action = "REAPPROVAL_REQUIRED"
       THEN JsonObject(ObjSet(ObjAsJsonPairs(obj), "_reapproval",
                JsonObject(<< <<"editedHeaders", JsonArray(<<"Title">>)>>,
                              <<"priorStatus", JsonString(prior)>> >>)))
       ELSE JsonOfObj(obj)

\* The second caller's operation p on the single data row r is over, and
\* the ledger holds an event the first caller's operation logged for r.
\* The pair is approve/reject against approve/reject, or approve/reject
\* against a reapproval after an edit of Title, in either order.
SecondOver(p, r) ==
    /\ Finished(p) /\ proc[p].err = "" /\ proc[p].actor = SecondActor
    /\ proc[p].rows = <<r>> /\ r > HEADER_ROW
    /\ \/ /\ proc[p].op = "decide"
          /\ proc[p].status \in {STATUS_APPROVED, STATUS_REJECTED}
          /\ \E k \in 1..Len(audit) :
                /\ audit[k].Actor # SecondActor /\ audit[k].RowNumber = r
                /\ \/ audit[k].Action \in {STATUS_APPROVED, STATUS_REJECTED}
                   \/ /\ audit[k].Action = "REAPPROVAL_REQUIRED"
                      /\ \E s \in DecideStatuses :
                            Cell(proc[p].req0, r, "DecisionNotes") = EditNotes(s)
       \/ /\ proc[p].op = "onEdit" /\ proc[p].edited = <<"Title">>
          /\ \E k \in 1..Len(audit) :
                /\ audit[k].Actor # SecondActor /\ audit[k].RowNumber = r
                /\ audit[k].Action \in {STATUS_APPROVED, STATUS_REJECTED}
                /\ Contains(cfg.fromStatuses, audit[k].Action)

\* Row k of the ledger is a complete event linked to the row before it.
CompleteEvent(k) ==
    /\ audit[k].EventAt # "" /\ audit[k].Actor # "" /\ audit[k].Action # ""
    /\ audit[k].RequestId # "" /\ audit[k].RowNumber > HEADER_ROW
    /\ audit[k].SnapshotHash = sha256Hex_(audit[k].SnapshotJSON)
    /\ audit[k].PrevChainHash = (IF k = 1 THEN "" ELSE audit[k - 1].ChainHash)
    /\ audit[k].ChainHash =
          chainHashOf(audit[k].PrevChainHash, audit[k].SnapshotHash)

\* The row an event of the given action shows in its snapshot, rowValues
\* being the row its operation left: an approval reads the row for the
\* snapshot before it stores the new ApprovedHash (src/Code.gs 501-510), so
\* that cell shows as it stood before the operation.
AsLogged(action, rowValues, hashBefore) ==
    IF action = STATUS_APPROVED
    THEN [rowValues EXCEPT ![IndexOf(headers, APPROVED_HASH_HEADER)] = hashBefore]
    ELSE rowValues

\* What C29 says of the second operation p on row r; shown(action, row,
\* hashBefore) is the row an event's snapshot is to show.
Serialized(p, r, shown(_, _, _)) ==
    LET left == proc[p].req0[r - HEADER_ROW]
        prior == left[IndexOf(headers, "Status")]
        hashLeft == left[IndexOf(headers, APPROVED_HASH_HEADER)]
    IN /\ DecisionCellsOf(requests, r) =
            (IF proc[p].op = "decide"
             THEN <<proc[p].status, SecondActor, SecondTime, SecondNotes>>
             ELSE <<STATUS_PENDING, "", "", EditNotes(prior)>>)
       /\ Len(audit) = 2
       /\ CompleteEvent(1) /\ CompleteEvent(2)
       /\ audit[1].Actor \in Actors /\ audit[1].EventAt \in Times
       /\ audit[1].RowNumber = r
       /\ audit[2].Actor = SecondActor /\ audit[2].EventAt = SecondTime
       /\ audit[2].RowNumber = r
       /\ audit[2].Action = (IF proc[p].op = "decide" THEN proc[p].status
                             ELSE "REAPPROVAL_REQUIRED")
       /\ prior = ImpliedStatus(audit[1].Action)
       \* the ledger was empty when the first operation began, so no
       \* ApprovedHash had been stored in the row
       /\ \E s \in DecideStatuses :
             /\ audit[1].Action = "REAPPROVAL_REQUIRED" =>
                   left[IndexOf(headers, "DecisionNotes")] = EditNotes(s)
             /\ audit[1].SnapshotJSON =
                   SnapshotFor(audit[1].Action, shown(audit[1].Action, left, ""), s)
       /\ audit[2].SnapshotJSON =
             SnapshotFor(audit[2].Action,
                         shown(audit[2].Action, requests[r - HEADER_ROW], hashLeft),
                         prior)

RowAsLeft(action, rowValues, hashBefore) == rowValues

\* C29 as stated: when the second of two operations on one row (approve or
\* reject against approve or reject, or against an edit-triggered
\* reapproval) is over, the row's Status, Approver, DecisionAt and
\* DecisionNotes are the ones the second operation, the last holder of the
\* lock, writes; the ledger holds two complete events, the first holder's
\* then the second's; and each event's snapshot is the row as its operation
\* left it.
C29_SameRowOperationsSerialized ==
    \A p \in Procs : \A r \in DataRowsOfSeq(proc[p].rows) :
        SecondOver(p, r) => Serialized(p, r, RowAsLeft)

\* The same with each event's snapshot being the row as its operation left
\* it except that an approval's snapshot shows the ApprovedHash cell as it
\* stood before the approval.
SerializedSnapshotBeforeHash ==
    \A p \in Procs : \A r \in DataRowsOfSeq(proc[p].rows) :
        SecondOver(p, r) => Serialized(p, r, AsLogged)

\* alice's approval of a row held the lock while bob's rejection of the
\* same row waited; the rejection is over.
SecondRejectionOver ==
    \E p \in Procs : \E r \in DataRowsOfSeq(proc[p].rows) :
        /\ SecondOver(p, r)
        /\ proc[p].op = "decide" /\ proc[p].status = STATUS_REJECTED
        /\ Len(audit) = 2
        /\ audit[1].Action = STATUS_APPROVED /\ audit[1].Actor = "alice"
        /\ Cell(requests, r, "Status") = STATUS_REJECTED


(***************************************************************************)
(* The status machine.                                                     *)
(***************************************************************************)
\* C30: a decide call that is over has left every data row it handled in
\* its target status, whatever status the row had when the call began:
\* no status is terminal.
C30_DecideAppliesTargetFromAnyStatus ==
    \A p \in Procs :
        DecideOver(p) =>
            \A r \in DataRowsOfSeq(proc[p].rows) :
                /\ Cell(proc[p].req0, r, "Status") \in DecideStatuses
                /\ Cell(requests, r, "Status") = proc[p].status

\* One reset call has taken an APPROVED row and a REJECTED row to PENDING.
C30_Witness ==
    \E p \in Procs :
        /\ DecideOver(p) /\ proc[p].status = STATUS_PENDING
        /\ \E r1, r2 \in DataRowsOfSeq(proc[p].rows) :
              /\ Cell(proc[p].req0, r1, "Status") = STATUS_APPROVED
              /\ Cell(proc[p].req0, r2, "Status") = STATUS_REJECTED
              /\ Cell(requests, r1, "Status") = STATUS_PENDING
              /\ Cell(requests, r2, "Status") = STATUS_PENDING


(***************************************************************************)
(* What a scan reports, and the rows an operation leaves alone.            *)
(***************************************************************************)
\* The events of the given action execution p has appended.
EventsOfAction(p, action) ==
    { i \in (proc[p].audit0 + 1)..Len(audit) : audit[i].Action = action }

\* The rows that were APPROVED when execution p began and are PENDING now.
ReopenedRows(p) ==
    { i \in 1..Len(requests) :
        /\ StatusOf(proc[p].req0, i) = STATUS_APPROVED
        /\ StatusOf(requests, i) = STATUS_PENDING }

\* C31: when a scan is over, the count of hashes it reports is the number
\* of APPROVAL_HASH_SET events it appended, and the count of reopened rows
\* is the number of REAPPROVAL_REQUIRED events it appended and the number
\* of rows it took from APPROVED to PENDING.
C31_ScanCountsAreWhatItDid ==
    \A p \in Procs :
        ScanOver(p) =>
            /\ proc[p].setCount = Cardinality(EventsOfAction(p, "APPROVAL_HASH_SET"))
            /\ proc[p].reapprovalCount =
                  Cardinality(EventsOfAction(p, "REAPPROVAL_REQUIRED"))
            /\ proc[p].reapprovalCount = Cardinality(ReopenedRows(p))

\* A scan has reopened one row and reports it; it set no hash.
C31_Witness ==
    \E p \in Procs :
        /\ ScanOver(p)
        /\ proc[p].setCount = 0 /\ proc[p].reapprovalCount = 1
        /\ Cardinality(ReopenedRows(p)) = 1
        /\ Len(audit) = proc[p].audit0 + 1


\* Execution p takes the step of its loop for the row it is at.
StepsRow(p, op) ==
    /\ proc[p].pc = "run" /\ proc[p].op = op
    /\ proc[p].idx <= Len(proc[p].rows)
    /\ proc'[p].pc = "run" /\ proc'[p].idx > proc[p].idx

RowAt(p) == proc[p].rows[proc[p].idx]

GuardsOf(prot, r) == { k \in 1..Len(prot) : IsSystemGuard(prot[k], r) }

\* The step changes no guard and no audit row.
GuardsAndAuditUntouched(r) ==
    /\ Cardinality(GuardsOf(protections', r)) = Cardinality(GuardsOf(protections, r))
    /\ audit' = audit

\* The step changes no cell of row r.
CellsUntouched(r) == requests'[r - HEADER_ROW] = requests[r - HEADER_ROW]

\* The step changes no cell of row r, except that an empty RequestId cell
\* may be filled.
CellsUntouchedButId(r) ==
    \A c \in 1..Len(headers) :
        \/ requests'[r - HEADER_ROW][c] = requests[r - HEADER_ROW][c]
        \/ /\ headers[c] = REQUEST_ID_HEADER
           /\ requests[r - HEADER_ROW][c] = ""

\* The row the scan is at, as it read it before its loop: not APPROVED, or
\* APPROVED with the stored ApprovedHash equal to the digest.
ScanLeavesAlone(p, r) ==
    LET rowValues == ScannedRow(p, r)
    IN \/ rowValues[ColumnOf("Status")] # STATUS_APPROVED
       \/ rowValues[ColumnOf(APPROVED_HASH_HEADER)] =
             computeMeaningfulHash_(headers, rowValues, cfg.tracked,
                                    REAPPROVAL_EXEMPT_HEADERS)

\* onEdit is at a data row whose Status is not in REAPPROVAL_FROM_STATUSES.
OnEditLeavesAlone(p, r) ==
    r > HEADER_ROW /\ ~Contains(cfg.fromStatuses, Cell(requests, r, "Status"))

\* The step takes row r to PENDING from another status.
Reverts(r) ==
    /\ Cell(requests, r, "Status") # STATUS_PENDING
    /\ Cell(requests', r, "Status") = STATUS_PENDING

\* What C32 says of one step; cells(r) is the frame the step keeps on the
\* cells of a row the scan leaves alone.
LeftAlone(cells(_)) ==
    \A p \in Procs :
        /\ StepsRow(p, "onEdit") /\ OnEditLeavesAlone(p, RowAt(p)) =>
              CellsUntouched(RowAt(p)) /\ GuardsAndAuditUntouched(RowAt(p))
        /\ StepsRow(p, "scan") /\ ScanLeavesAlone(p, RowAt(p)) =>
              cells(RowAt(p)) /\ GuardsAndAuditUntouched(RowAt(p))
        /\ (StepsRow(p, "onEdit") \/ StepsRow(p, "scan")) /\ RowAt(p) > HEADER_ROW
           /\ Reverts(RowAt(p)) =>
              Cell(requests', RowAt(p), APPROVED_HASH_HEADER) =
                 Cell(requests, RowAt(p), APPROVED_HASH_HEADER)

TargetCells(p) ==
    IF proc[p].status = STATUS_PENDING THEN <<STATUS_PENDING, "", "", "">>
    ELSE <<proc[p].status, proc[p].actor, proc[p].now, proc[p].notes>>

\* The pass of decide call p over the row it is at throws in this step.
DecideFailsHere(p) == proc[p].op = "decide" /\ AppendThrew(p)

\* C33: when a decide call fails at its k-th row, the rows before it keep
\* the target Status, the decision cells, their ApprovedHash and their one
\* event each; the rows after it are as they were when the call began and
\* get no event; no audit row is taken back; no further row is handled
\* after the error; and the step the failed call takes next releases the
\* lock and changes nothing else.
C33_FailedBatchKeepsEarlierRows ==
    [][\A p \in Procs :
          /\ DecideFailsHere(p) =>
                /\ \A j \in 1..(proc[p].idx - 1) :
                      LET r == proc[p].rows[j]
                      IN /\ requests'[r - HEADER_ROW] = requests[r - HEADER_ROW]
                         /\ DecisionCellsOf(requests', r) = TargetCells(p)
                         /\ proc[p].status = STATUS_APPROVED =>
                               Cell(requests', r, APPROVED_HASH_HEADER) # ""
                         /\ Cardinality({ i \in (proc[p].audit0 + 1)..Len(audit') :
                                            audit'[i].RowNumber = r }) = 1
                /\ \A j \in (proc[p].idx + 1)..Len(proc[p].rows) :
                      LET r == proc[p].rows[j]
                      IN /\ requests'[r - HEADER_ROW] = proc[p].req0[r - HEADER_ROW]
                         /\ ~\E i \in (proc[p].audit0 + 1)..Len(audit') :
                                  audit'[i].RowNumber = r
                         /\ Cardinality(GuardsOf(protections', r)) =
                               Cardinality(GuardsOf(protections, r))
                /\ Len(audit') >= Len(audit)
                /\ SubSeq(audit', 1, Len(audit)) = audit
          /\ proc[p].op = "decide" /\ proc[p].err = AuditAppendFailed =>
                /\ Finished(p) /\ lock = p
                /\ proc'[p] # proc[p] =>
                      /\ lock' = NoProc /\ proc'[p].pc = "idle"
                      /\ requests' = requests /\ audit' = audit
                      /\ protections' = protections]_vars

\* A batch of two rows has failed at its second row: the first row has the
\* target status and its event, and the call still holds the lock.
C33_Witness ==
    \E p \in Procs :
        /\ proc[p].op = "decide" /\ proc[p].err = AuditAppendFailed
        /\ Len(proc[p].rows) = 2
        /\ Len(audit) = proc[p].audit0 + 1
        /\ audit[Len(audit)].RowNumber = proc[p].rows[1]
        /\ Cell(requests, proc[p].rows[1], "Status") = proc[p].status
        /\ Cell(proc[p].req0, proc[p].rows[1], "Status") # proc[p].status


(***************************************************************************)
(* The snapshot of a decision.                                             *)
(***************************************************************************)
\* C34: when a decide call is over, the snapshot of the event it appended
\* for a row is the row as the call left it; for an approval, on a sheet
\* with an ApprovedHash column, the snapshot so shows the ApprovedHash the
\* approval stored.
C34_SnapshotIsRowAtEventTime ==
    \A p \in Procs :
        DecideOver(p) /\ Contains(headers, APPROVED_HASH_HEADER) =>
            \A r \in DataRowsOfSeq(proc[p].rows) : \A i \in EventsFor(p, r) :
                audit[i].SnapshotJSON =
                    JsonOfObj(rowToObject_(headers, requests[r - HEADER_ROW]))


(***************************************************************************)
(* Multi-row edits.                                                        *)
(***************************************************************************)
\* C35: when the handler of a meaningful edit has returned, every data row
\* of the edited range whose Status was in REAPPROVAL_FROM_STATUSES is
\* PENDING, wherever the range starts, the header row included.
C35_EveryDataRowOfTheRangeReverted ==
    \A p \in Procs :
        OnEditOver(p) /\ ~proc[p].second /\ MeaningfulHeaderEdited(p) =>
            \A r \in DataRowsOf(proc[p].startRow, proc[p].numRows) :
                Contains(cfg.fromStatuses, Cell(proc[p].sheetAtEdit, r, "Status"))
                    => Cell(requests, r, "Status") = STATUS_PENDING


(***************************************************************************)
(* The trigger and the hasher.                                             *)
(***************************************************************************)
\* onEdit takes an edit of column c alone as meaningful.
TriggerActsOn(c) ==
    isMeaningfulEdit(editedHeadersOf(headers, c, 1), cfg.tracked,
                     REAPPROVAL_EXEMPT_HEADERS)

\* The key of column c is among the keys of the digest.
HashedColumn(c) ==
    Contains(MeaningfulKeys(headers, cfg.tracked, REAPPROVAL_EXEMPT_HEADERS),
             HeaderKey(headers, c))

\* C36: for every column of the header row, onEdit takes an edit of that
\* column alone as meaningful exactly when its key is among the keys of the
\* digest; and a change of one cell of a hashed row that alters the row's
\* digest is in a column whose edit the trigger acts on.
C36_TriggerAndHasherAgree ==
    /\ \A c \in 1..Len(headers) : TriggerActsOn(c) <=> HashedColumn(c)
    /\ \A p \in Procs :
          HashedHere(p) =>
             \A c \in 1..Len(headers) : \A v \in {"a", "b"} :
                computeMeaningfulHash_(headers, [HashedRow(p) EXCEPT ![c] = v],
                                       cfg.tracked, REAPPROVAL_EXEMPT_HEADERS)
                   # proc[p].prev
                => TriggerActsOn(c)

\* A row was hashed with Title tracked; a change of its Title cell alters
\* the digest and the trigger acts on it, and neither holds of the column
\* with the empty header.
C36_Witness ==
    \E p \in Procs :
        /\ HashedHere(p)
        /\ cfg = CustomCfg
        /\ headers = <<"Title", "", "Status">>
        /\ HashedRow(p) = <<"a", "a", "a">>
        /\ TriggerActsOn(1) /\ ~TriggerActsOn(2) /\ ~TriggerActsOn(3)
        /\ computeMeaningfulHash_(headers, <<"b", "a", "a">>, cfg.tracked,
                                  REAPPROVAL_EXEMPT_HEADERS) # proc[p].prev


(***************************************************************************)
(* The demo rows.                                                          *)
(***************************************************************************)
\* The Requests rows createDemoSetup leaves on an empty spreadsheet, the
\* DEMO_SETUP event being the first of the ledger.
SeededRows ==
    demoSeed([Store EXCEPT !.req = <<>>], RequestsHeaders, audit[1].EventAt,
             cfg.tracked, REAPPROVAL_EXEMPT_HEADERS).req

\* The scan p is over, and it was run directly after createDemoSetup had
\* seeded an empty spreadsheet.
ScanOfSeedOver(p) ==
    /\ ScanOver(p)
    /\ proc[p].audit0 = 1 /\ audit[1].Action = "DEMO_SETUP"
    /\ proc[p].req0 = SeededRows

\* C37: the scan run directly after createDemoSetup on an empty spreadsheet
\* reopens row 5 (REQ-0004) and no other row, and leaves row 3 (REQ-0002)
\* APPROVED, its cells as seeded, with no event for it.
C37_DemoScanReopensOnlyDriftRow ==
    \A p \in Procs :
        ScanOfSeedOver(p) =>
            /\ Cell(requests, 5, REQUEST_ID_HEADER) = "REQ-0004"
            /\ Cell(requests, 5, "Status") = STATUS_PENDING
            /\ ReopenedRows(p) = {4}
            /\ proc[p].reapprovalCount = 1
            /\ Cell(requests, 3, REQUEST_ID_HEADER) = "REQ-0002"
            /\ requests[2] = SeededRows[2]
            /\ Cell(requests, 3, "Status") = STATUS_APPROVED
            /\ EventsFor(p, 3) = {}


(***************************************************************************)
(* The document lock.                                                      *)
(***************************************************************************)
\* The lock is held by an execution that is inside its try block.
HeldByRunning == lock # NoProc => proc[lock].pc = "run"

\* C38: a decide, onEdit or scan execution that has the document lock
\* releases it however it ends (all rows handled, an early return, a thrown
\* error): the lock is only ever held by an execution still under way, and
\* a held lock is always freed again.
C38_LockAlwaysReleased ==
    /\ [] HeldByRunning
    /\ \A p \in Procs : (lock = p) ~> (lock = NoProc)

C38_Witness ==
    /\ lock = NoProc
    /\ \E p \in Procs : proc[p].pc = "idle" /\ proc[p].last = "failed"


(***************************************************************************)
(* Approvals and the edits that follow them.                               *)
(***************************************************************************)
\* The handler p of an edit has returned without an error.
HandlerCompleted(p) == OnEditOver(p) /\ proc[p].err = ""

\* Row r was approved by a decide step taken after the edit that handler p
\* is for: the step read the row with the edit in it.
ApprovedSinceEdit(p, r) ==
    \E i \in (proc[p].auditAtEdit + 1)..Len(audit) :
        audit[i].RowNumber = r /\ audit[i].Action = STATUS_APPROVED

\* C39: once the handler of a meaningful edit has completed, a data row of
\* the edited range is APPROVED only if it was approved after the edit,
\* whatever decide calls and other edits were interleaved with it.
C39_NoStaleApprovalAfterHandledEdit ==
    \A p \in Procs :
        HandlerCompleted(p) /\ MeaningfulHeaderEdited(p) =>
            \A r \in DataRowsOf(proc[p].startRow, proc[p].numRows) :
                Cell(requests, r, "Status") = STATUS_APPROVED
                    => ApprovedSinceEdit(p, r)

=============================================================================
